---------------------------- MODULE Spec2Model ----------------------------
(***************************************************************************)
(* Model of the leaf-damage analyzer of AnalisisAfeccionFrijol             *)
(* (src/UI/utils/plant_analyzer.py): HSV range classification of one leaf  *)
(* image, the scan of a directory of crops and the per-(image, category)   *)
(* rollup of the results.                                                  *)
(*                                                                         *)
(* Python floats are modelled as exact rationals num/den in lowest          *)
(* terms: the values the analyzer computes are quotients of small pixel    *)
(* counts, and IEEE rounding (relative error 2^-53) is far below every     *)
(* tolerance stated about them.  An image is modelled from the point where *)
(* line 57 has produced hsv_img: a grid of 8-bit (H, S, V) pixels.         *)
(***************************************************************************)
EXTENDS Integers, Sequences, FiniteSets, TLC

VARIABLES
    color_ranges,   \* [analyzer -> self.color_ranges]
    image_file,     \* the file handed to analyze_leaf_damage (environment)
    returned,       \* [analyzer -> what its last call on image_file returned]
    crops,          \* the crops directory (environment)
    results,        \* the dict analyze_crops_directory returned
    summary,        \* the dict calculate_summary_statistics returned
    pc,             \* position of the scan / rollup sequence
    report,         \* [bucketing site -> what its last run computed]
    filtros,        \* the FiltrosProcessamiento object's two tables
    imagen_entrada, \* the image handed to aplicar_filtro (environment)
    llamada,        \* tipo_filtro and parametros of the call (environment)
    filtrada,       \* what the call of aplicar_filtro returned
    vista,          \* what the last mask crop or colour analysis produced
    devuelto,       \* the dict get_parametros_filtro returned, in its caller's hands
    histograma,     \* what calcular_histograma_rgb returned
    entrenamiento,  \* the training tab and its TrainingWorker
    visor,          \* the advanced image viewer and its FilterWorker threads
    analisis        \* the analysis tab and its AnalysisWorker

\* The variables of the viewers and of the worker threads.
gui == <<vista, devuelto, histograma, entrenamiento, visor, analisis>>

vars == <<color_ranges, image_file, returned, crops, results, summary, pc,
          report, filtros, imagen_entrada, llamada, filtrada, gui>>

\* The variables of the analysis tab's statistics and of the filter bank.
others == <<report, filtros, imagen_entrada, llamada, filtrada, gui>>

----------------------------------------------------------------------------
(* Bounds *)

\* Largest number of pixels (rows * cols) of an enumerated leaf image.
MaxPixels == 4

\* Largest number of files present in the crops directory.
MaxFiles == 3

----------------------------------------------------------------------------
(* Python floats as exact rationals *)

Abs(n) == IF n < 0 THEN -n ELSE n

RECURSIVE GCD(_, _)
GCD(a, b) == IF b = 0 THEN a ELSE GCD(b, a % b)

\* The rational n/d (d # 0) in lowest terms with a positive denominator.
Rat(n, d) ==
    LET g == GCD(Abs(n), Abs(d))
        s == IF d < 0 THEN -1 ELSE 1
    IN  [num |-> (s * n) \div g, den |-> (s * d) \div g]

RatAdd(x, y) == Rat(x.num * y.den + y.num * x.den, x.den * y.den)
RatMulInt(x, k) == Rat(x.num * k, x.den)
RatDivInt(x, k) == Rat(x.num, x.den * k)
Float(n) == Rat(n, 1)

\* Python's None, and the marker of a raised exception inside a try block.
None == [type |-> "NoneType"]
Raised == [type |-> "Exception"]

\* Python's true division count / total: raises ZeroDivisionError on 0.
TrueDiv(a, b) == IF b = 0 THEN Raised ELSE Rat(a, b)

----------------------------------------------------------------------------
(* PlantAnalyzer.__init__ *)

States == <<"sano", "afectado", "severo">>      \* dict insertion order
StateNames == {States[i] : i \in DOMAIN States}

\* The range table with the severo hue reaching 20.
ColorRangesSevereTo20 ==
    [sano     |-> [lower |-> <<35, 50, 50>>, upper |-> <<85, 255, 255>>],
     afectado |-> [lower |-> <<20, 50, 50>>, upper |-> <<34, 255, 255>>],
     severo   |-> [lower |-> <<5, 30, 20>>,  upper |-> <<20, 255, 200>>]]

\* The range table with the afectado hue starting at 15.
ColorRangesMildFrom15 ==
    [sano     |-> [lower |-> <<35, 50, 50>>, upper |-> <<85, 255, 255>>],
     afectado |-> [lower |-> <<15, 50, 50>>, upper |-> <<34, 255, 255>>],
     severo   |-> [lower |-> <<5, 30, 20>>,  upper |-> <<19, 255, 200>>]]

\* self.color_ranges as __init__ sets it.
InitColorRanges ==
    [sano     |-> [lower |-> <<35, 50, 50>>, upper |-> <<85, 255, 255>>],
     afectado |-> [lower |-> <<20, 50, 50>>, upper |-> <<34, 255, 255>>],
     severo   |-> [lower |-> <<5, 30, 20>>,  upper |-> <<19, 255, 200>>]]

visualization_colors ==
    [sano     |-> <<0, 255, 0>>,
     afectado |-> <<0, 255, 255>>,
     severo   |-> <<0, 0, 128>>]

\* The two PlantAnalyzer objects the program constructs.
Analyzers == {"worker", "tab"}

----------------------------------------------------------------------------
(* Arrays: [shape |-> <<rows, cols>>, data |-> row-major sequence] *)

Array(rows, cols, data) == [shape |-> <<rows, cols>>, data |-> data]

\* cv2.inRange with the upper bound excluded.
inRange_strict_upper(hsv, lower, upper) ==
    [shape |-> hsv.shape,
     data  |-> [i \in DOMAIN hsv.data |->
                  IF \A c \in 1..3 : /\ lower[c] <= hsv.data[i][c]
                                     /\ hsv.data[i][c] < upper[c]
                  THEN 255 ELSE 0]]

\* cv2.inRange: 255 where lower[c] <= pixel[c] <= upper[c] on every channel.
inRange(hsv, lower, upper) ==
    [shape |-> hsv.shape,
     data  |-> [i \in DOMAIN hsv.data |->
                  IF \A c \in 1..3 : /\ lower[c] <= hsv.data[i][c]
                                     /\ hsv.data[i][c] <= upper[c]
                  THEN 255 ELSE 0]]

\* A count of every entry of the mask, zero or not.
countNonZero_size(mask) == Len(mask.data)

\* cv2.countNonZero
countNonZero(mask) == Cardinality({i \in DOMAIN mask.data : mask.data[i] # 0})

----------------------------------------------------------------------------
(* Files and cv2.imread *)

\* A file that cv2.imread cannot decode.
Unreadable == [decodes |-> FALSE, pixels |-> Array(0, 0, <<>>)]

\* A file that decodes to the pixel grid `arr`.
ImageFile(arr) == [decodes |-> TRUE, pixels |-> arr]

\* cv2.imread: the decoded array, or None when the file cannot be read.
imread(file) == IF file.decodes THEN file.pixels ELSE None

----------------------------------------------------------------------------
(* PlantAnalyzer.analyze_leaf_damage *)

\* sum(pixel_counts.values()) with one category left out.
total_plant_pixels_skip_severo(pixel_counts) ==
    pixel_counts["sano"] + pixel_counts["afectado"]

\* total_plant_pixels = sum(pixel_counts.values())
total_plant_pixels(pixel_counts) ==
    pixel_counts["sano"] + pixel_counts["afectado"] + pixel_counts["severo"]

\* A percentage rounded down to a whole number.
percentage_rounded(count, total) ==
    IF total = 0 THEN Raised ELSE Float((count * 100) \div total)

\* percentages[state] = (count / total_plant_pixels) * 100
percentage(count, total) ==
    LET q == TrueDiv(count, total)
    IN  IF q = Raised THEN Raised ELSE RatMulInt(q, 100)

\* overlay_mask[mask > 0] = color, for the states in dict order from k on.
RECURSIVE paint_overlay(_, _, _)
paint_overlay(overlay, masks, k) ==
    IF k > Len(States) THEN overlay
    ELSE LET state == States[k]
             painted == [i \in DOMAIN overlay |->
                           IF masks[state].data[i] > 0
                           THEN visualization_colors[state]
                           ELSE overlay[i]]
         IN  paint_overlay(painted, masks, k + 1)

\* overlay_mask = np.zeros_like(img), then painted state by state.
overlay_mask(img, masks) ==
    [shape |-> img.shape,
     data  |-> paint_overlay([i \in DOMAIN img.data |-> <<0, 0, 0>>], masks, 1)]

\* The masks and counts of lines 60-66.
classify(ranges, hsv_img) ==
    [state \in StateNames |->
        inRange(hsv_img, ranges[state].lower, ranges[state].upper)]

\* The record returned at lines 72-80.
zero_result(masks, img) ==
    [sano |-> Float(0), afectado |-> Float(0), severo |-> Float(0),
     afectacion_total |-> Float(0), total_pixels |-> 0,
     masks |-> masks, original_image |-> img]

\* Lines 82-106; an exception raised on the way reaches line 108.
full_result(masks, pixel_counts, total, img) ==
    LET percentages ==
            [state \in StateNames |-> percentage(pixel_counts[state], total)]
    IN  IF \E state \in StateNames : percentages[state] = Raised
        THEN None
        ELSE [sano |-> percentages["sano"],
              afectado |-> percentages["afectado"],
              severo |-> percentages["severo"],
              afectacion_total |->
                  RatAdd(percentages["afectado"], percentages["severo"]),
              total_pixels |-> total,
              pixel_counts |-> pixel_counts,
              masks |-> masks,
              overlay_mask |-> overlay_mask(img, masks),
              original_image |-> img]

\* analyze_leaf_damage without the total == 0 branch.
analyze_leaf_damage_no_guard(ranges, file) ==
    LET img == imread(file)
    IN  IF img = None THEN None
        ELSE LET masks == classify(ranges, img)
                 pixel_counts ==
                     [state \in StateNames |-> countNonZero(masks[state])]
             IN  full_result(masks, pixel_counts,
                             total_plant_pixels(pixel_counts), img)

\* analyze_leaf_damage answering an undecodable file with zeroed statistics.
analyze_leaf_damage_zero_on_failure(ranges, file) ==
    LET img == imread(file)
        arr == IF img = None THEN file.pixels ELSE img
        masks == classify(ranges, arr)
        pixel_counts == [state \in StateNames |-> countNonZero(masks[state])]
        total == total_plant_pixels(pixel_counts)
    IN  IF total = 0 THEN zero_result(masks, arr)
        ELSE full_result(masks, pixel_counts, total, arr)

\* analyze_leaf_damage(image_path), as a function of the analyzer's ranges
\* and of the file at image_path.
analyze_leaf_damage(ranges, file) ==
    LET img == imread(file)
    IN  IF img = None THEN None
        ELSE LET masks == classify(ranges, img)
                 pixel_counts ==
                     [state \in StateNames |-> countNonZero(masks[state])]
                 total == total_plant_pixels(pixel_counts)
             IN  IF total = 0 THEN zero_result(masks, img)
                 ELSE full_result(masks, pixel_counts, total, img)

----------------------------------------------------------------------------
(* The leaf images analysed *)

\* Channel values on, next to and between the bounds of the three ranges.
HueValues == {0, 4, 5, 10, 14, 15, 17, 19, 20, 25, 34, 35, 60, 85, 86, 179}
SatValues == {0, 29, 30, 49, 50, 100, 200, 255}
ValValues == {0, 19, 20, 49, 50, 200, 201, 255}
BoundaryPixels == HueValues \X SatValues \X ValValues

\* Green, yellow, dark brown, black, and an orange of hue 17.
Green == <<60, 200, 200>>
Yellow == <<25, 200, 200>>
Brown == <<10, 100, 50>>
Black == <<0, 0, 0>>
Orange == <<17, 200, 200>>
Palette == {Green, Yellow, Brown, Black, Orange}

Shapes == {sh \in (1..MaxPixels) \X (1..MaxPixels) : sh[1] * sh[2] <= MaxPixels}

LeafImages ==
    UNION {{Array(sh[1], sh[2], d) : d \in [1..(sh[1] * sh[2]) -> Palette]} :
           sh \in Shapes}

LeafFiles ==
    {Unreadable}
      \cup {ImageFile(Array(1, 1, <<p>>)) : p \in BoundaryPixels}
      \cup {ImageFile(img) : img \in LeafImages}

----------------------------------------------------------------------------
(* TrainTab and its TrainingWorker (train_tab.py) *)

\* Largest number of output lines the yolo process writes.
MaxOutput == 2

\* The tab after __init__, with no worker yet.  pc is the position of the
\* worker thread, process the state of self.process ("none" for None),
\* pending the lines written to the pipe and not yet read, attempts the
\* training methods run() has started, emitted the success values of the
\* training_completed signals emitted, queued those not yet delivered to
\* the tab, and stopped_in_cli tells that stop() was called while the yolo
\* process was running.
InitTrainTab ==
    [pc |-> "none", should_stop |-> FALSE, process |-> "none",
     pending |-> 0, written |-> 0, attempts |-> <<>>, emitted |-> <<>>,
     queued |-> <<>>, start_btn |-> TRUE, stop_btn |-> FALSE,
     stopped_in_cli |-> FALSE]

----------------------------------------------------------------------------
(* AdvancedImageViewer and its FilterWorker threads                        *)
(* (advanced_image_viewer.py)                                              *)

\* Largest number of FilterWorker threads started in one viewer.
MaxRequests == 2

\* The viewer after __init__: the entry without a filter selected (its
\* currentData() is None), the apply button disabled, no worker.  workers[k] is the k-th FilterWorker created, with
\* what it was constructed with and whether run() has returned;
\* filter_worker is the index of the one self.filter_worker refers to (0
\* for none); queued are the emitted signals not yet delivered to the
\* viewer; shown_from is the index of the worker whose image is displayed.
SinFiltro == "-- Sin Filtro --"

InitViewer ==
    [filter_combo |-> SinFiltro, kernel_spin |-> 5, apply_btn |-> FALSE,
     apply_text |-> "Aplicar Filtro", filter_worker |-> 0, workers |-> <<>>,
     queued |-> <<>>, filtered_image |-> None, shown_from |-> 0]

----------------------------------------------------------------------------
(* AnalysisTab and its AnalysisWorker (analysis_tab.py) *)

\* The tab after __init__ and setup_ui: only the analyse button enabled,
\* no results.  emitted are the analysis_completed signals the current
\* worker has emitted, queued those not yet delivered to the tab, raised
\* tells that the worker's run() caught an exception, and handled that the
\* tab has handled the current worker's signal.
InitAnalysisTab ==
    [analyze_btn |-> TRUE, export_btn |-> FALSE, stats_btn |-> FALSE,
     current_results |-> <<>>, current_summary |-> <<>>,
     emitted |-> <<>>, queued |-> <<>>, raised |-> FALSE, handled |-> FALSE]

----------------------------------------------------------------------------
(* Calls of analyze_leaf_damage on one file *)

NotCalled == [type |-> "NotCalled"]

\* The three methods of AnalysisTab that bucket the summary by severity.
Sites == {"generate_general_statistics", "create_general_stats_tab",
          "create_severity_distribution_tab"}
NoCrops == [exists |-> FALSE, files |-> {}]
EmptyDict == <<>>

\* Nothing has run in the statistics views, and no filter has been applied.
Idle ==
    /\ report = [site \in Sites |-> NotCalled]
    /\ filtros = None
    /\ imagen_entrada = None
    /\ llamada = None
    /\ filtrada = NotCalled
    /\ vista = NotCalled
    /\ devuelto = NotCalled
    /\ histograma = NotCalled
    /\ entrenamiento = InitTrainTab
    /\ visor = InitViewer
    /\ analisis = InitAnalysisTab

Init ==
    /\ color_ranges = [a \in Analyzers |-> InitColorRanges]
    /\ image_file \in LeafFiles
    /\ returned = [a \in Analyzers |-> NotCalled]
    /\ crops = NoCrops
    /\ results = EmptyDict
    /\ summary = EmptyDict
    /\ pc = "idle"
    /\ Idle

\* A call that also widens the analyzer's own sano range in place.
AnalyzeLeafDamage_tuning(a) ==
    /\ returned' = [returned EXCEPT
                      ![a] = analyze_leaf_damage(color_ranges[a], image_file)]
    /\ color_ranges' = [color_ranges EXCEPT
                          ![a]["sano"]["lower"] = <<0, 0, 0>>]
    /\ UNCHANGED <<image_file, crops, results, summary, pc, others>>

\* Analyzer a runs analyze_leaf_damage on the file.
AnalyzeLeafDamage(a) ==
    /\ returned' = [returned EXCEPT
                      ![a] = analyze_leaf_damage(color_ranges[a], image_file)]
    /\ UNCHANGED <<color_ranges, image_file, crops, results, summary, pc,
                   others>>

Next == \E a \in Analyzers : AnalyzeLeafDamage(a)

Spec == Init /\ [][Next]_vars

----------------------------------------------------------------------------
(* The crops directory *)

\* A 1 x n leaf with the given numbers of green, yellow, brown and black
\* pixels, in that order.
Leaf(sano, afectado, severo, none) ==
    Array(1, sano + afectado + severo + none,
          [i \in 1..(sano + afectado + severo + none) |->
              IF i <= sano THEN Green
              ELSE IF i <= sano + afectado THEN Yellow
              ELSE IF i <= sano + afectado + severo THEN Brown
              ELSE Black])

\* The crop files a directory may hold, by content: crops with 10, 20 and
\* 30 percent of affected pixels, one without any classified pixel, and one
\* that does not decode.
CropFiles == {"leaf10", "leaf20", "leaf30", "leaf0", "corrupt"}

\* What is stored in a crop file.
CropContent(name) ==
    CASE name = "leaf10" -> ImageFile(Leaf(9, 1, 0, 0))
      [] name = "leaf20" -> ImageFile(Leaf(8, 1, 1, 0))
      [] name = "leaf30" -> ImageFile(Leaf(7, 2, 1, 1))
      [] name = "leaf0" -> ImageFile(Leaf(0, 0, 0, 2))
      [] name = "corrupt" -> Unreadable

\* Directory entries: parent is the category subfolder, or "." for an entry
\* lying in crops_dir itself; names are sequences of characters.
Path(parent, stem, suffix) ==
    [parent |-> parent, stem |-> stem, suffix |-> suffix]

AcceptedPaths ==
    {Path("hoja", <<"i", "m", "g", "0", "0", "1", "_", "0">>, <<".", "j", "p", "g">>),
     Path("hoja", <<"i", "m", "g", "0", "0", "1", "_", "1">>, <<".", "P", "N", "G">>),
     Path("hoja", <<"i", "m", "g", "0", "0", "1", "_", "2">>, <<".", "j", "p", "e", "g">>),
     Path("tallo", <<"i", "m", "g", "0", "0", "1", "_", "0">>, <<".", "j", "p", "g">>),
     Path("hoja", <<"i", "m", "g", "0", "0", "2", "_", "0">>, <<".", "j", "p", "g">>)}

SkippedPaths ==
    {Path("hoja", <<"i", "m", "g", "a", "b", "c", "_", "0">>, <<".", "j", "p", "g">>),
     Path("hoja", <<"i", "m", "g", "0", "0", "1", "_", "3">>, <<".", "t", "x", "t">>),
     Path(".", <<"i", "m", "g", "0", "0", "1", "_", "9">>, <<".", "j", "p", "g">>)}

CropPaths == AcceptedPaths \cup SkippedPaths

Entry(path, file) == [path |-> path, file |-> file]

\* Every directory of at most MaxFiles entries; the content of an entry the
\* scan never opens is fixed.
Directories ==
    UNION {{[exists |-> TRUE, files |-> {Entry(q, c[q]) : q \in P}] :
              c \in {d \in [P -> CropFiles] :
                       \A q \in P \cap SkippedPaths : d[q] = "leaf10"}} :
           P \in {Q \in SUBSET CropPaths : Cardinality(Q) <= MaxFiles}}

\* Every arrangement of the set S as a sequence.
RECURSIVE Arrangements(_)
Arrangements(S) ==
    IF S = {} THEN {<<>>}
    ELSE UNION {{<<x>> \o rest : rest \in Arrangements(S \ {x})} : x \in S}

\* What iterdir on crops_dir yields: a category folder <<name>>, or a loose
\* file <<".", entry>>.
TopEntries(dir) ==
    {IF e.path.parent = "." THEN <<".", e>> ELSE <<e.path.parent>> :
        e \in dir.files}

\* What iterdir on the top entry t yields (a loose file stands for itself).
EntriesOf(dir, t) ==
    IF Len(t) = 2 THEN {t[2]}
    ELSE {e \in dir.files : e.path.parent = t[1]}

\* The visits of all files when the top entries come in the order `outer`.
RECURSIVE OrdersAlong(_, _)
OrdersAlong(dir, outer) ==
    IF outer = <<>> THEN {<<>>}
    ELSE {first \o rest :
            first \in Arrangements(EntriesOf(dir, Head(outer))),
            rest \in OrdersAlong(dir, Tail(outer))}

\* The orders in which the nested Path.iterdir loops can visit the entries:
\* the entries of crops_dir in any order, the files of each folder in any
\* order.
IterdirOrders(dir) ==
    UNION {OrdersAlong(dir, outer) : outer \in Arrangements(TopEntries(dir))}

----------------------------------------------------------------------------
(* str.lower, slicing and int() *)

lower_char(c) ==
    CASE c = "J" -> "j" [] c = "P" -> "p" [] c = "E" -> "e"
      [] c = "G" -> "g" [] c = "N" -> "n" [] c = "T" -> "t"
      [] c = "X" -> "x" [] OTHER -> c

lower(s) == [i \in DOMAIN s |-> lower_char(s[i])]

Min(a, b) == IF a <= b THEN a ELSE b

\* s[lo:hi] for 0 <= lo <= hi.
slice(s, lo, hi) == SubSeq(s, lo + 1, Min(hi, Len(s)))

Digits == {"0", "1", "2", "3", "4", "5", "6", "7", "8", "9"}

digit_value(c) ==
    CASE c = "0" -> 0 [] c = "1" -> 1 [] c = "2" -> 2 [] c = "3" -> 3
      [] c = "4" -> 4 [] c = "5" -> 5 [] c = "6" -> 6 [] c = "7" -> 7
      [] c = "8" -> 8 [] c = "9" -> 9

RECURSIVE strip(_)
strip(s) ==
    IF s = <<>> THEN s
    ELSE IF Head(s) = " " THEN strip(Tail(s))
    ELSE IF s[Len(s)] = " " THEN strip(SubSeq(s, 1, Len(s) - 1))
    ELSE s

RECURSIVE digits_value(_, _)
digits_value(s, acc) ==
    IF s = <<>> THEN acc
    ELSE IF Head(s) = "_" THEN digits_value(Tail(s), acc)
    ELSE digits_value(Tail(s), 10 * acc + digit_value(Head(s)))

\* int(s): surrounding blanks and one sign are allowed, then decimal digits
\* with single underscores between them; anything else is a ValueError.
int(s) ==
    LET t == strip(s)
        signed == t # <<>> /\ Head(t) \in {"+", "-"}
        body == IF signed THEN Tail(t) ELSE t
        valid == /\ body # <<>>
                 /\ \A i \in DOMAIN body : body[i] \in Digits \cup {"_"}
                 /\ body[1] # "_"
                 /\ body[Len(body)] # "_"
                 /\ \A i \in 1..(Len(body) - 1) :
                       ~(body[i] = "_" /\ body[i + 1] = "_")
    IN  IF ~valid THEN Raised
        ELSE [type |-> "int",
              value |-> IF signed /\ Head(t) = "-"
                        THEN 0 - digits_value(body, 0)
                        ELSE digits_value(body, 0)]

----------------------------------------------------------------------------
(* PlantAnalyzer.analyze_crops_directory *)

\* d[k] = v on a dict d.
dict_set(d, k, v) ==
    [x \in DOMAIN d \cup {k} |-> IF x = k THEN v ELSE d[x]]

\* `if analysis_result:` -- None and the empty dict are falsy.
truthy(r) == r # None /\ DOMAIN r # {}

ImageSuffixes ==
    {<<".", "j", "p", "g">>, <<".", "j", "p", "e", "g">>, <<".", "p", "n", "g">>}

\* self.analyze_leaf_damage(str(image_file)) for every file of the
\* directory.  The call reads the file and the ranges alone, so the scan is
\* given its value per file instead of re-evaluating it on every visit.
leaf_analyses(ranges, dir) ==
    [f \in {e.file : e \in dir.files} |->
        analyze_leaf_damage(ranges, CropContent(f))]

\* The loops' body dropping an analysis without classified pixels.
scan_entry_skip_unclassified(analyses, entry, res) ==
    IF entry.path.parent = "." THEN res                      \* not is_dir()
    ELSE IF lower(entry.path.suffix) \notin ImageSuffixes THEN res
    ELSE LET image_num == int(slice(entry.path.stem, 3, 6))
         IN  IF image_num = Raised THEN res
             ELSE LET analysis_result == analyses[entry.file]
                      n == image_num.value
                      category_name == entry.path.parent
                  IN  IF ~truthy(analysis_result) \/ analysis_result.total_pixels = 0
                         THEN res
                      ELSE LET r1 == IF n \in DOMAIN res THEN res
                                     ELSE dict_set(res, n, EmptyDict)
                               r2 == IF category_name \in DOMAIN r1[n] THEN r1
                                     ELSE dict_set(r1, n,
                                            dict_set(r1[n], category_name, <<>>))
                           IN  dict_set(r2, n,
                                 dict_set(r2[n], category_name,
                                   Append(r2[n][category_name], analysis_result)))

\* One pass of the loops' body (lines 130-157) for one entry.
scan_entry(analyses, entry, res) ==
    IF entry.path.parent = "." THEN res                      \* not is_dir()
    ELSE IF lower(entry.path.suffix) \notin ImageSuffixes THEN res
    ELSE LET image_num == int(slice(entry.path.stem, 3, 6))
         IN  IF image_num = Raised THEN res
             ELSE LET analysis_result == analyses[entry.file]
                      n == image_num.value
                      category_name == entry.path.parent
                  IN  IF ~truthy(analysis_result) THEN res
                      ELSE LET r1 == IF n \in DOMAIN res THEN res
                                     ELSE dict_set(res, n, EmptyDict)
                               r2 == IF category_name \in DOMAIN r1[n] THEN r1
                                     ELSE dict_set(r1, n,
                                            dict_set(r1[n], category_name, <<>>))
                           IN  dict_set(r2, n,
                                 dict_set(r2[n], category_name,
                                   Append(r2[n][category_name], analysis_result)))

RECURSIVE scan_from(_, _, _, _)
scan_from(analyses, order, k, res) ==
    IF k > Len(order) THEN res
    ELSE scan_from(analyses, order, k + 1, scan_entry(analyses, order[k], res))

\* The loops of lines 129-157 when iterdir yields the entries in `order`.
scan_directory(analyses, dir, order) ==
    IF ~dir.exists THEN EmptyDict
    ELSE scan_from(analyses, order, 1, EmptyDict)

\* analyze_crops_directory(crops_dir) when iterdir yields the entries in
\* `order`.
analyze_crops_directory(ranges, dir, order) ==
    scan_directory(leaf_analyses(ranges, dir), dir, order)

----------------------------------------------------------------------------
(* PlantAnalyzer.calculate_summary_statistics *)

NaN == [type |-> "nan"]

RECURSIVE sum_from(_, _, _)
sum_from(xs, k, acc) ==
    IF k > Len(xs) THEN acc ELSE sum_from(xs, k + 1, RatAdd(acc, xs[k]))

\* The sum of the samples, never divided by their number.
np_mean_undivided(xs) ==
    IF xs = <<>> THEN NaN ELSE sum_from(xs, 1, Float(0))

\* A running average: each sample is averaged with the mean so far.
np_mean_running(xs) ==
    LET RECURSIVE run(_, _)
        run(k, acc) ==
            IF k > Len(xs) THEN acc
            ELSE run(k + 1, RatDivInt(RatAdd(acc, xs[k]), 2))
    IN  IF xs = <<>> THEN NaN ELSE run(2, xs[1])

\* np.mean of a list of floats: their sum divided by their number.
np_mean(xs) ==
    IF xs = <<>> THEN NaN ELSE RatDivInt(sum_from(xs, 1, Float(0)), Len(xs))

column(results_list, key) ==
    [i \in DOMAIN results_list |-> results_list[i][key]]

\* A rollup that keeps a group without samples, with np.mean's nan.
calculate_summary_statistics_keep_empty(analysis_results) ==
    [image_num \in DOMAIN analysis_results |->
        LET categories == analysis_results[image_num]
        IN  [category \in DOMAIN categories |->
                LET results_list == categories[category]
                IN  [sano |-> np_mean(column(results_list, "sano")),
                     afectado |-> np_mean(column(results_list, "afectado")),
                     severo |-> np_mean(column(results_list, "severo")),
                     afectacion_total |->
                         np_mean(column(results_list, "afectacion_total")),
                     count |-> Len(results_list)]]]

calculate_summary_statistics(analysis_results) ==
    [image_num \in DOMAIN analysis_results |->
        LET categories == analysis_results[image_num]
        IN  [category \in {c \in DOMAIN categories : categories[c] # <<>>} |->
                LET results_list == categories[category]
                IN  [sano |-> np_mean(column(results_list, "sano")),
                     afectado |-> np_mean(column(results_list, "afectado")),
                     severo |-> np_mean(column(results_list, "severo")),
                     afectacion_total |->
                         np_mean(column(results_list, "afectacion_total")),
                     count |-> Len(results_list)]]]

----------------------------------------------------------------------------
(* Scan of the crops directory followed by the rollup *)

InitRollup ==
    /\ color_ranges = [a \in Analyzers |-> InitColorRanges]
    /\ image_file = Unreadable
    /\ returned = [a \in Analyzers |-> NotCalled]
    /\ crops \in Directories \cup {NoCrops}
    /\ results = EmptyDict
    /\ summary = EmptyDict
    /\ pc = "start"
    /\ Idle

\* The worker's analyzer scans the directory, in one of iterdir's orders.
AnalyzeCropsDirectory ==
    /\ pc = "start"
    /\ \E analyses \in {leaf_analyses(color_ranges["worker"], crops)} :
          \E order \in IterdirOrders(crops) :
              results' = scan_directory(analyses, crops, order)
    /\ pc' = "scanned"
    /\ UNCHANGED <<color_ranges, image_file, returned, crops, summary, others>>

\* The worker's analyzer rolls the scan's results up.
CalculateSummaryStatistics ==
    /\ pc = "scanned"
    /\ summary' = calculate_summary_statistics(results)
    /\ pc' = "summarised"
    /\ UNCHANGED <<color_ranges, image_file, returned, crops, results, others>>

NextRollup == AnalyzeCropsDirectory \/ CalculateSummaryStatistics

SpecRollup == InitRollup /\ [][NextRollup]_vars

----------------------------------------------------------------------------
(* AnalysisTab: the three severity distributions over the summary *)

\* x < n and n <= x for a float x and an int literal n.
Less(x, n) == x.num < n * x.den
AtLeast(x, n) == n * x.den <= x.num

\* count / total, left as a fraction.
share_fraction(count, total) == TrueDiv(count, total)

\* count / total * 100; the ZeroDivisionError of a zero total is kept.
share(count, total) ==
    LET q == TrueDiv(count, total)
    IN  IF q = Raised THEN Raised ELSE RatMulInt(q, 100)

\* f"{x:.1f}" for x >= 0: the nearest number of tenths, the even one when
\* two are equally near.
format_1f(x) ==
    LET tenths == (10 * x.num) \div x.den
        twice == 2 * ((10 * x.num) % x.den)
        up == \/ twice > x.den
              \/ twice = x.den /\ tenths % 2 = 1
    IN  Rat(IF up THEN tenths + 1 ELSE tenths, 10)

\* One line of a distribution: the count, count/total*100 and its rendering.
share_line(count, total) ==
    LET p == share(count, total)
    IN  IF p = Raised THEN Raised
        ELSE [count |-> count, percentage |-> p, shown |-> format_1f(p)]

\* category_stats of lines 1013-1018: per category, the stats of the images
\* that have the category (indexed by image number instead of by position).
category_stats(current_summary) ==
    LET categories ==
            UNION {DOMAIN current_summary[i] : i \in DOMAIN current_summary}
    IN  [c \in categories |->
            [i \in {j \in DOMAIN current_summary :
                        c \in DOMAIN current_summary[j]} |->
                current_summary[i][c]]]

\* generate_general_statistics: None on the early return, Raised when a
\* line of the text raises, else the distribution of lines 1040-1054.
generate_general_statistics(current_summary) ==
    IF DOMAIN current_summary = {} THEN None
    ELSE
        LET stats == category_stats(current_summary)
            samples == UNION {{<<c, i>> : i \in DOMAIN stats[c]} :
                                c \in DOMAIN stats}
            total(s) == stats[s[1]][s[2]].afectacion_total
            total_samples == Cardinality(samples)
            sano_count == Cardinality({s \in samples : Less(total(s), 10)})
            leve_count ==
                Cardinality({s \in samples :
                                AtLeast(total(s), 10) /\ Less(total(s), 30)})
            moderado_count ==
                Cardinality({s \in samples :
                                AtLeast(total(s), 30) /\ Less(total(s), 70)})
            severo_count ==
                Cardinality({s \in samples : AtLeast(total(s), 70)})
            lines == <<share_line(sano_count, total_samples),
                       share_line(leve_count, total_samples),
                       share_line(moderado_count, total_samples),
                       share_line(severo_count, total_samples)>>
        IN  IF \E k \in 1..4 : lines[k] = Raised THEN Raised
            ELSE [total |-> total_samples, lines |-> lines]

\* all_totals of lines 1506-1509 and 1547-1550: the afectacion_total of
\* every (image, category) entry (indexed by the entry instead of by
\* position).
all_totals(current_summary) ==
    [e \in UNION {{<<i, c>> : c \in DOMAIN current_summary[i]} :
                     i \in DOMAIN current_summary} |->
        current_summary[e[1]][e[2]].afectacion_total]

\* A distribution whose bands include their upper boundary instead of
\* their lower one.
create_general_stats_tab_open_lower(current_summary) ==
    LET totals == all_totals(current_summary)
        sano_count ==
            Cardinality({e \in DOMAIN totals : ~AtLeast(totals[e], 10)
                                                  \/ totals[e] = Float(10)})
        leve_count ==
            Cardinality({e \in DOMAIN totals :
                            /\ AtLeast(totals[e], 10) /\ totals[e] # Float(10)
                            /\ Less(totals[e], 30) \/ totals[e] = Float(30)})
        moderado_count ==
            Cardinality({e \in DOMAIN totals :
                            /\ AtLeast(totals[e], 30) /\ totals[e] # Float(30)
                            /\ Less(totals[e], 70) \/ totals[e] = Float(70)})
        severo_count ==
            Cardinality({e \in DOMAIN totals :
                            AtLeast(totals[e], 70) /\ totals[e] # Float(70)})
        total == Cardinality(DOMAIN totals)
    IN  IF DOMAIN totals = {} THEN None
        ELSE [total |-> total,
              lines |-> <<share_line(sano_count, total),
                          share_line(leve_count, total),
                          share_line(moderado_count, total),
                          share_line(severo_count, total)>>]

\* create_general_stats_tab, lines 1505-1523: the distribution section of
\* the text, None when `if all_totals:` leaves it out.
create_general_stats_tab(current_summary) ==
    LET totals == all_totals(current_summary)
        sano_count == Cardinality({e \in DOMAIN totals : Less(totals[e], 10)})
        leve_count ==
            Cardinality({e \in DOMAIN totals :
                            AtLeast(totals[e], 10) /\ Less(totals[e], 30)})
        moderado_count ==
            Cardinality({e \in DOMAIN totals :
                            AtLeast(totals[e], 30) /\ Less(totals[e], 70)})
        severo_count ==
            Cardinality({e \in DOMAIN totals : AtLeast(totals[e], 70)})
        total == Cardinality(DOMAIN totals)
    IN  IF DOMAIN totals = {} THEN None
        ELSE [total |-> total,
              lines |-> <<share_line(sano_count, total),
                          share_line(leve_count, total),
                          share_line(moderado_count, total),
                          share_line(severo_count, total)>>]

\* create_severity_distribution_tab, lines 1546-1570: the four sizes and the
\* non-zero ones handed to the pie chart, None when `if all_totals:` skips
\* the charts.
create_severity_distribution_tab(current_summary) ==
    LET totals == all_totals(current_summary)
        sano_count == Cardinality({e \in DOMAIN totals : Less(totals[e], 10)})
        leve_count ==
            Cardinality({e \in DOMAIN totals :
                            AtLeast(totals[e], 10) /\ Less(totals[e], 30)})
        moderado_count ==
            Cardinality({e \in DOMAIN totals :
                            AtLeast(totals[e], 30) /\ Less(totals[e], 70)})
        severo_count ==
            Cardinality({e \in DOMAIN totals : AtLeast(totals[e], 70)})
        sizes == <<sano_count, leve_count, moderado_count, severo_count>>
    IN  IF DOMAIN totals = {} THEN None
        ELSE [total |-> Cardinality(DOMAIN totals),
              sizes |-> sizes,
              pie |-> SelectSeq(sizes, LAMBDA size : size > 0)]

----------------------------------------------------------------------------
(* Rollup of a given analysis_results dict, then the three distributions *)

\* Largest number of images in an analysis_results dict.
MaxImages == 2

\* A sample whose afectacion_total is t percent.
Sample(t) ==
    [sano |-> Rat(100 * t.den - t.num, t.den), afectado |-> t,
     severo |-> Float(0), afectacion_total |-> t]

\* Totals on and just below the band boundaries.
BoundaryTotals ==
    {Rat(9999, 1000), Float(10), Rat(29999, 1000), Float(30),
     Rat(69999, 1000), Float(70)}

\* The results lists of the first category: empty, one boundary sample, or
\* two samples of mean 20.
ResultsLists ==
    {<<>>, <<Sample(Float(10)), Sample(Float(30))>>}
        \cup {<<Sample(t)>> : t \in BoundaryTotals}

\* The category maps of one image: no category at all, or "hoja" alone or
\* with a "tallo" list that is empty or holds one sample.
CategoryMaps ==
    {EmptyDict}
        \cup {[c \in {"hoja"} |-> l] : l \in ResultsLists}
        \cup {[c \in {"hoja", "tallo"} |->
                  IF c = "hoja" THEN l ELSE m] :
                l \in ResultsLists, m \in {<<>>, <<Sample(Float(70))>>}}

\* The six literal totals 9.999, 10.0, 29.999, 30.0, 69.999, 70.0, one per
\* (image, category) group.
ScenarioResults ==
    [i \in 1..3 |->
        [c \in {"hoja", "tallo"} |->
            <<Sample(CASE i = 1 /\ c = "hoja"  -> Rat(9999, 1000)
                       [] i = 1 /\ c = "tallo" -> Float(10)
                       [] i = 2 /\ c = "hoja"  -> Rat(29999, 1000)
                       [] i = 2 /\ c = "tallo" -> Float(30)
                       [] i = 3 /\ c = "hoja"  -> Rat(69999, 1000)
                       [] OTHER                -> Float(70))>>]]

\* The analysis_results dicts handed to calculate_summary_statistics.
AnalysisResults ==
    {ScenarioResults}
        \cup UNION {[1..n -> CategoryMaps] : n \in 0..MaxImages}

InitStats ==
    /\ color_ranges = [a \in Analyzers |-> InitColorRanges]
    /\ image_file = Unreadable
    /\ returned = [a \in Analyzers |-> NotCalled]
    /\ crops = NoCrops
    /\ results \in AnalysisResults
    /\ summary = EmptyDict
    /\ pc = "scanned"
    /\ Idle

\* self.current_summary is the summary the worker sent (line 933).
GenerateGeneralStatistics ==
    /\ pc = "summarised"
    /\ report' = [report EXCEPT !["generate_general_statistics"] =
                      generate_general_statistics(summary)]
    /\ UNCHANGED <<color_ranges, image_file, returned, crops, results,
                   summary, pc, filtros, imagen_entrada, llamada, filtrada,
                   gui>>

CreateGeneralStatsTab ==
    /\ pc = "summarised"
    /\ report' = [report EXCEPT !["create_general_stats_tab"] =
                      create_general_stats_tab(summary)]
    /\ UNCHANGED <<color_ranges, image_file, returned, crops, results,
                   summary, pc, filtros, imagen_entrada, llamada, filtrada,
                   gui>>

CreateSeverityDistributionTab ==
    /\ pc = "summarised"
    /\ report' = [report EXCEPT !["create_severity_distribution_tab"] =
                      create_severity_distribution_tab(summary)]
    /\ UNCHANGED <<color_ranges, image_file, returned, crops, results,
                   summary, pc, filtros, imagen_entrada, llamada, filtrada,
                   gui>>

NextStats ==
    \/ CalculateSummaryStatistics
    \/ GenerateGeneralStatistics
    \/ CreateGeneralStatsTab
    \/ CreateSeverityDistributionTab

SpecStats == InitStats /\ [][NextStats]_vars

----------------------------------------------------------------------------
(* FiltrosProcessamiento: tables and dispatch *)

FilterNames ==
    {"Gaussiano", "Laplaciano", "Media", "Mediana", "Sobel", "Prewitt"}

\* self.parametros_default with every kernel_size one less.
parametros_default_smaller ==
    [tipo_filtro \in FilterNames |->
        CASE tipo_filtro = "Gaussiano" ->
                 [kernel_size |-> 3, sigma |-> Float(1)]
          [] tipo_filtro = "Laplaciano" -> [tipo |-> "4-conectado"]
          [] tipo_filtro = "Media" -> [kernel_size |-> 3]
          [] tipo_filtro = "Mediana" -> [kernel_size |-> 3]
          [] tipo_filtro = "Sobel" -> [direccion |-> "ambas"]
          [] OTHER -> [direccion |-> "ambas"]]

\* self.parametros_default as __init__ sets it.
parametros_default ==
    [tipo_filtro \in FilterNames |->
        CASE tipo_filtro = "Gaussiano" ->
                 [kernel_size |-> 5, sigma |-> Float(1)]
          [] tipo_filtro = "Laplaciano" -> [tipo |-> "4-conectado"]
          [] tipo_filtro = "Media" -> [kernel_size |-> 5]
          [] tipo_filtro = "Mediana" -> [kernel_size |-> 5]
          [] tipo_filtro = "Sobel" -> [direccion |-> "ambas"]
          [] OTHER -> [direccion |-> "ambas"]]

\* The object after __init__: the keys of filtros_disponibles (each bound
\* to the method of its name) and the table of defaults.
InitFiltros ==
    [filtros_disponibles |-> FilterNames,
     parametros_default |-> parametros_default]

\* params.get(key, default)
get(params, key, default) ==
    IF key \in DOMAIN params THEN params[key] ELSE default

ValueError == [type |-> "ValueError"]
cv2_error == [type |-> "cv2.error"]

----------------------------------------------------------------------------
(* Grey and colour images; the OpenCV and NumPy calls of the filters *)

\* len(imagen.shape) == 3
is_color(imagen) == Len(imagen.shape) = 3

\* cv2.cvtColor(imagen, cv2.COLOR_BGR2GRAY):
\* (1868 B + 9617 G + 4899 R + 2^13) >> 14 on 8-bit pixels.
BGR2GRAY(imagen) ==
    [shape |-> <<imagen.shape[1], imagen.shape[2]>>,
     data |-> [i \in DOMAIN imagen.data |->
                  (1868 * imagen.data[i][1] + 9617 * imagen.data[i][2]
                     + 4899 * imagen.data[i][3] + 8192) \div 16384]]

\* cv2.cvtColor(gris, cv2.COLOR_GRAY2BGR): the value on the three channels.
GRAY2BGR(gris) ==
    [shape |-> <<gris.shape[1], gris.shape[2], 3>>,
     data |-> [i \in DOMAIN gris.data |->
                  <<gris.data[i], gris.data[i], gris.data[i]>>]]

\* Lines 114-117, 140-143 and 171-174.
imagen_gris(imagen) == IF is_color(imagen) THEN BGR2GRAY(imagen) ELSE imagen

\* BORDER_REFLECT_101, the default border of cv2.Sobel, cv2.Laplacian and
\* cv2.filter2D, for a position at most one step outside 0..len-1.
reflect_101(p, len) ==
    IF len = 1 THEN 0
    ELSE IF p < 0 THEN -p
    ELSE IF p >= len THEN 2 * (len - 1) - p
    ELSE p

\* cv2.filter2D(gris, cv2.CV_64F, kernel) for a 3 x 3 kernel: the
\* correlation of the image with the kernel, anchored at its centre.  The
\* 64-bit float result holds these integers exactly.
filter2D(gris, kernel) ==
    LET rows == gris.shape[1]
        cols == gris.shape[2]
        at(r, c) == gris.data[reflect_101(r, rows) * cols
                                + reflect_101(c, cols) + 1]
        sum3(f(_)) == f(1) + f(2) + f(3)
        response(r, c) ==
            LET row(i) ==
                    LET term(j) == kernel[i][j] * at(r + i - 2, c + j - 2)
                    IN  sum3(term)
            IN  sum3(row)
    IN  [shape |-> gris.shape,
         data |-> [k \in 1..(rows * cols) |->
                      response((k - 1) \div cols, (k - 1) % cols)]]

\* The kernels of cv2.Sobel(.., 1, 0, ksize=3) and (.., 0, 1, ksize=3), of
\* cv2.Laplacian with its default ksize=1, and of lines 177-183.
sobel_kernel_x == <<<<-1, 0, 1>>, <<-2, 0, 2>>, <<-1, 0, 1>>>>
sobel_kernel_y == <<<<-1, -2, -1>>, <<0, 0, 0>>, <<1, 2, 1>>>>
laplacian_kernel == <<<<0, 1, 0>>, <<1, -4, 1>>, <<0, 1, 0>>>>
kernel_x == <<<<-1, 0, 1>>, <<-1, 0, 1>>, <<-1, 0, 1>>>>
kernel_y == <<<<-1, -1, -1>>, <<0, 0, 0>>, <<1, 1, 1>>>>

\* cv2.Sobel(gris, cv2.CV_64F, dx, dy, ksize=3)
Sobel(gris, dx, dy) ==
    filter2D(gris, IF dx = 1 THEN sobel_kernel_x ELSE sobel_kernel_y)

\* cv2.Laplacian(gris, cv2.CV_64F)
Laplacian(gris) == filter2D(gris, laplacian_kernel)

\* The largest r in lo..hi with r * r <= n (lo * lo <= n).
RECURSIVE isqrt_between(_, _, _)
isqrt_between(n, lo, hi) ==
    IF lo = hi THEN lo
    ELSE LET mid == (lo + hi + 1) \div 2
         IN  IF mid * mid <= n THEN isqrt_between(n, mid, hi)
             ELSE isqrt_between(n, lo, mid - 1)

\* np.sqrt(a**2 + b**2) elementwise.  An array marked `sqrt` stands for
\* the square roots of its (integer) elements.
np_sqrt_squares(a, b) ==
    [shape |-> a.shape,
     data |-> [i \in DOMAIN a.data |->
                  a.data[i] * a.data[i] + b.data[i] * b.data[i]],
     sqrt |-> TRUE]

is_sqrt(a) == "sqrt" \in DOMAIN a

\* np.abs elementwise (a square root is its own absolute value).
np_abs(a) ==
    IF is_sqrt(a) THEN a
    ELSE [shape |-> a.shape,
          data |-> [i \in DOMAIN a.data |-> Abs(a.data[i])]]

\* A cast to 8 bits without the clip: the integer part modulo 256.
astype_uint8_unclipped(a) ==
    [shape |-> a.shape,
     data |-> [i \in DOMAIN a.data |->
                  IF is_sqrt(a)
                      THEN isqrt_between(a.data[i], 0, 2048) % 256
                      ELSE a.data[i] % 256]]

\* np.clip(a, 0, 255).astype(np.uint8): below 0 gives 0, above 255 gives
\* 255, and the cast drops the fraction of what lies between.
clip_uint8(a) ==
    [shape |-> a.shape,
     data |-> [i \in DOMAIN a.data |->
                  IF is_sqrt(a)
                      THEN IF a.data[i] >= 255 * 255 THEN 255
                           ELSE isqrt_between(a.data[i], 0, 255)
                  ELSE IF a.data[i] < 0 THEN 0
                  ELSE IF a.data[i] > 255 THEN 255
                  ELSE a.data[i]]]

\* The last lines of each edge filter: back to BGR for a colour input.
like_input(imagen, result) ==
    IF is_color(imagen) THEN GRAY2BGR(result) ELSE result

----------------------------------------------------------------------------
(* The six filters *)

\* The smoothing calls of OpenCV are kept as terms: the same call on the
\* same image gives the same image.  What OpenCV makes of a size that is
\* not positive is its own affair: an error or some image.
smoothed(call) ==
    IF call.ksize[1] > 0 THEN {call} ELSE {call, cv2_error}

\* A median filter that hands kernel_size to OpenCV as it came.
filtro_mediana_unadjusted(imagen, params) ==
    LET kernel_size == get(params, "kernel_size", 5)
    IN  smoothed([op |-> "medianBlur", src |-> imagen,
                  ksize |-> <<kernel_size, kernel_size>>])

\* _filtro_gaussiano
filtro_gaussiano(imagen, params) ==
    LET kernel_size == get(params, "kernel_size", 5)
        sigma == get(params, "sigma", Float(1))
        odd == IF kernel_size % 2 = 0 THEN kernel_size + 1 ELSE kernel_size
    IN  smoothed([op |-> "GaussianBlur", src |-> imagen,
                  ksize |-> <<odd, odd>>, sigmaX |-> sigma])

\* _filtro_media
filtro_media(imagen, params) ==
    LET kernel_size == get(params, "kernel_size", 5)
        odd == IF kernel_size % 2 = 0 THEN kernel_size + 1 ELSE kernel_size
    IN  smoothed([op |-> "blur", src |-> imagen, ksize |-> <<odd, odd>>])

\* _filtro_mediana
filtro_mediana(imagen, params) ==
    LET kernel_size == get(params, "kernel_size", 5)
        odd == IF kernel_size % 2 = 0 THEN kernel_size + 1 ELSE kernel_size
    IN  smoothed([op |-> "medianBlur", src |-> imagen,
                  ksize |-> <<odd, odd>>])

\* _filtro_laplaciano; params is never read.
filtro_laplaciano(imagen, params) ==
    LET laplaciano == Laplacian(imagen_gris(imagen))
    IN  {like_input(imagen, clip_uint8(np_abs(laplaciano)))}

\* A Sobel filter with the derivatives of x and y exchanged.
filtro_sobel_swapped(imagen, params) ==
    LET direccion == get(params, "direccion", "ambas")
        gris == imagen_gris(imagen)
        sobel ==
            IF direccion = "x" THEN Sobel(gris, 0, 1)
            ELSE IF direccion = "y" THEN Sobel(gris, 1, 0)
            ELSE np_sqrt_squares(Sobel(gris, 1, 0), Sobel(gris, 0, 1))
    IN  {like_input(imagen, clip_uint8(sobel))}

\* _filtro_sobel
filtro_sobel(imagen, params) ==
    LET direccion == get(params, "direccion", "ambas")
        gris == imagen_gris(imagen)
        sobel ==
            IF direccion = "x" THEN Sobel(gris, 1, 0)
            ELSE IF direccion = "y" THEN Sobel(gris, 0, 1)
            ELSE np_sqrt_squares(Sobel(gris, 1, 0), Sobel(gris, 0, 1))
    IN  {like_input(imagen, clip_uint8(sobel))}

\* _filtro_prewitt
filtro_prewitt(imagen, params) ==
    LET direccion == get(params, "direccion", "ambas")
        gris == imagen_gris(imagen)
        prewitt ==
            IF direccion = "x" THEN filter2D(gris, kernel_x)
            ELSE IF direccion = "y" THEN filter2D(gris, kernel_y)
            ELSE np_sqrt_squares(filter2D(gris, kernel_x),
                                 filter2D(gris, kernel_y))
    IN  {like_input(imagen, clip_uint8(np_abs(prewitt)))}

\* self.filtros_disponibles[tipo_filtro](imagen, parametros)
dispatch(tipo_filtro, imagen, parametros) ==
    CASE tipo_filtro = "Gaussiano" -> filtro_gaussiano(imagen, parametros)
      [] tipo_filtro = "Laplaciano" -> filtro_laplaciano(imagen, parametros)
      [] tipo_filtro = "Media" -> filtro_media(imagen, parametros)
      [] tipo_filtro = "Mediana" -> filtro_mediana(imagen, parametros)
      [] tipo_filtro = "Sobel" -> filtro_sobel(imagen, parametros)
      [] tipo_filtro = "Prewitt" -> filtro_prewitt(imagen, parametros)

\* What a call leaves behind: the value returned or the exception raised,
\* the object's tables and the caller's image.
Outcome(value, self, imagen) ==
    [value |-> value, self |-> self, imagen |-> imagen]

\* aplicar_filtro answering an unknown name with the default filter.
aplicar_filtro_fallback(self, imagen, tipo_filtro, parametros) ==
    LET known == IF tipo_filtro \in self.filtros_disponibles
                     THEN tipo_filtro ELSE "Gaussiano"
        given == IF parametros = None
                     THEN self.parametros_default[known]
                     ELSE parametros
    IN  {Outcome(value, self, imagen) :
            value \in dispatch(known, imagen, given)}

\* aplicar_filtro(imagen, tipo_filtro, parametros): the possible outcomes.
aplicar_filtro(self, imagen, tipo_filtro, parametros) ==
    IF tipo_filtro \notin self.filtros_disponibles
        THEN {Outcome(ValueError, self, imagen)}
    ELSE
        LET given == IF parametros = None
                         THEN get(self.parametros_default, tipo_filtro,
                                  EmptyDict)
                         ELSE parametros
        IN  {Outcome(value, self, imagen) :
                value \in dispatch(tipo_filtro, imagen, given)}

----------------------------------------------------------------------------
(* Calls of aplicar_filtro *)

\* Black and white pixels.
GreyValues == {0, 255}

\* Grey images of at most MaxPixels pixels.
SmallGreyImages ==
    UNION {{Array(sh[1], sh[2], data) :
               data \in [1..(sh[1] * sh[2]) -> GreyValues]} : sh \in Shapes}

\* The 3 x 3 grey images of at most four mid-grey pixels on black: the
\* smallest ones on which both gradients can be non-zero.
SquareGreyImages ==
    {Array(3, 3, data) :
        data \in {d \in [1..9 -> {0, 100}] :
                     Cardinality({i \in 1..9 : d[i] = 100}) <= 4}}

\* Colour images: the three-pixel rows with the grey value on B, G and R.
ColourImages ==
    {GRAY2BGR(gris) : gris \in {g \in SmallGreyImages : g.shape = <<1, 3>>}}

GreyImages == SmallGreyImages \cup SquareGreyImages

\* The parametros of a call: omitted, empty, or some of the keys.
Parametros ==
    {None, EmptyDict}
        \cup {[kernel_size |-> k] : k \in {-4, -3, 3, 4, 5, 6}}
        \cup {[kernel_size |-> 4, sigma |-> Float(2)],
              [kernel_size |-> 5, sigma |-> Float(1)], [sigma |-> Float(2)]}
        \cup {[direccion |-> d] : d \in {"x", "y", "ambas", "diagonal"}}
        \cup {[tipo |-> t] : t \in {"4-conectado", "6-conectado"}}

\* The calls made: a registered filter or an unknown name.
Calls ==
    {[tipo_filtro |-> t, parametros |-> p] :
        t \in FilterNames \cup {"Canny"}, p \in Parametros}

InitFilters ==
    /\ color_ranges = [a \in Analyzers |-> InitColorRanges]
    /\ image_file = Unreadable
    /\ returned = [a \in Analyzers |-> NotCalled]
    /\ crops = NoCrops
    /\ results = EmptyDict
    /\ summary = EmptyDict
    /\ pc = "idle"
    /\ report = [site \in Sites |-> NotCalled]
    /\ filtros = InitFiltros
    /\ imagen_entrada \in GreyImages \/ imagen_entrada \in ColourImages
    /\ llamada \in Calls
    /\ filtrada = NotCalled
    /\ vista = NotCalled
    /\ devuelto = NotCalled
    /\ histograma = NotCalled
    /\ entrenamiento = InitTrainTab
    /\ visor = InitViewer
    /\ analisis = InitAnalysisTab

\* The call llamada of aplicar_filtro on the image, with one of its
\* outcomes.
AplicarFiltro ==
    /\ \E outcome \in aplicar_filtro(filtros, imagen_entrada,
                                      llamada.tipo_filtro,
                                      llamada.parametros) :
          /\ filtrada' = outcome.value
          /\ filtros' = outcome.self
          /\ imagen_entrada' = outcome.imagen
    /\ UNCHANGED <<color_ranges, image_file, returned, crops, results,
                   summary, pc, report, llamada, gui>>

NextFilters == AplicarFiltro

SpecFilters == InitFilters /\ [][NextFilters]_vars

----------------------------------------------------------------------------
(* Category masks of the viewers: mask crops and heat maps                 *)
(* (advanced_image_viewer.py, analysis_tab.py).  As for the analyzer, an   *)
(* image is modelled from the point where cvtColor has produced hsv.       *)

MaskNames == <<"healthy", "disease1", "disease2">>
MaskNameSet == {MaskNames[i] : i \in DOMAIN MaskNames}

\* The viewer's ranges with the analyzer's lower bound of the severe range.
viewer_ranges_analyzer_severe ==
    [healthy  |-> [lower |-> <<40, 40, 40>>, upper |-> <<80, 255, 255>>],
     disease1 |-> [lower |-> <<15, 40, 40>>, upper |-> <<35, 255, 255>>],
     disease2 |-> [lower |-> <<5, 30, 20>>,  upper |-> <<15, 255, 100>>]]

\* The ranges of AdvancedImageViewer.apply_mask_crop.
viewer_ranges ==
    [healthy  |-> [lower |-> <<40, 40, 40>>, upper |-> <<80, 255, 255>>],
     disease1 |-> [lower |-> <<15, 40, 40>>, upper |-> <<35, 255, 255>>],
     disease2 |-> [lower |-> <<0, 0, 0>>,    upper |-> <<15, 255, 100>>]]

\* The ranges of ImageDisplayWidget.apply_masks.
tab_ranges ==
    [healthy  |-> [lower |-> <<40, 40, 40>>, upper |-> <<80, 255, 255>>],
     disease1 |-> [lower |-> <<15, 40, 40>>, upper |-> <<35, 255, 255>>],
     disease2 |-> [lower |-> <<0, 0, 0>>,    upper |-> <<15, 255, 100>>]]

\* The ranges of AnalysisTab.perform_color_analysis.
color_analysis_ranges ==
    [healthy  |-> [lower |-> <<35, 40, 40>>, upper |-> <<80, 255, 255>>],
     disease1 |-> [lower |-> <<15, 40, 40>>, upper |-> <<35, 255, 255>>],
     disease2 |-> [lower |-> <<0, 0, 0>>,    upper |-> <<19, 255, 200>>]]

\* mask_healthy_cv, mask_disease1_cv and mask_disease2_cv.
masks_of(ranges, hsv) ==
    [m \in MaskNameSet |-> inRange(hsv, ranges[m].lower, ranges[m].upper)]

\* np.zeros_like(mask)
zeros_like(mask) ==
    [shape |-> mask.shape, data |-> [i \in DOMAIN mask.data |-> 0]]

\* An exclusive or of two masks.
bitwise_xor(a, b) ==
    [shape |-> a.shape,
     data  |-> [i \in DOMAIN a.data |->
                  IF (a.data[i] = 0) # (b.data[i] = 0) THEN 255 ELSE 0]]

\* cv2.bitwise_or of two masks whose entries are 0 or 255.
bitwise_or(a, b) ==
    [shape |-> a.shape,
     data  |-> [i \in DOMAIN a.data |->
                  IF a.data[i] = 0 THEN b.data[i] ELSE a.data[i]]]

\* The loop `for mask_type in masks_selected` from entry k on.
RECURSIVE combine_selected(_, _, _, _)
combine_selected(combined_mask, masks, masks_selected, k) ==
    IF k > Len(masks_selected) THEN combined_mask
    ELSE LET mask_type == masks_selected[k]
             next == IF mask_type \in MaskNameSet
                     THEN bitwise_or(combined_mask, masks[mask_type])
                     ELSE combined_mask
         IN  combine_selected(next, masks, masks_selected, k + 1)

\* combined_mask of apply_mask_crop.
viewer_combined_mask(hsv, masks_selected) ==
    LET masks == masks_of(viewer_ranges, hsv)
    IN  combine_selected(zeros_like(masks["healthy"]), masks,
                         masks_selected, 1)

\* combined_mask of apply_masks: one `if` per check box.
tab_combined_mask(hsv, checked) ==
    LET masks == masks_of(tab_ranges, hsv)
        one == IF "healthy" \in checked
               THEN bitwise_or(zeros_like(masks["healthy"]), masks["healthy"])
               ELSE zeros_like(masks["healthy"])
        two == IF "disease1" \in checked
               THEN bitwise_or(one, masks["disease1"]) ELSE one
    IN  IF "disease2" \in checked
        THEN bitwise_or(two, masks["disease2"]) ELSE two

Grey128 == <<128, 128, 128>>
White == <<255, 255, 255>>

\* The picture left by a crop: each pixel is the image's or the background's.
masked(combined_mask, background) ==
    [shape |-> combined_mask.shape,
     background |-> background,
     data  |-> [i \in DOMAIN combined_mask.data |->
                  IF combined_mask.data[i] = 255 THEN "image"
                  ELSE "background"]]

\* apply_mask_crop(image, masks_selected, bg_color)
apply_mask_crop(hsv, masks_selected, bg_color) ==
    LET combined_mask == viewer_combined_mask(hsv, masks_selected)
        result == masked(combined_mask,
                         IF bg_color = None THEN Grey128 ELSE bg_color)
    IN  IF countNonZero(combined_mask) = 0 THEN None ELSE result

\* What apply_masks shows.  The bounding box of the selected pixels is
\* widened by a margin of 20 pixels on each side and cut at the image's
\* border, so that for images of up to 20 x 20 pixels it is the whole image.
apply_masks(file, checked, bg_white) ==
    LET image == imread(file)
    IN  IF image = None THEN None
        ELSE LET combined_mask == tab_combined_mask(image, checked)
             IN  IF countNonZero(combined_mask) = 0 THEN None
                 ELSE masked(combined_mask,
                             IF bg_white THEN White ELSE <<0, 0, 0>>)

\* array[mask > 0] = value
assign_where(array, mask, value) ==
    [i \in DOMAIN array |-> IF mask.data[i] > 0 THEN value ELSE array[i]]

\* The intensity map written with the severe category first.
intensity_map_severe_first(masks) ==
    LET zeros == [i \in DOMAIN masks["healthy"].data |-> Float(0)]
        severe == assign_where(zeros, masks["disease2"], Float(3))
        mild == assign_where(severe, masks["disease1"], Float(2))
    IN  assign_where(mild, masks["healthy"], Float(1))

\* intensity_map of create_heatmap_analysis, before it is smoothed.
intensity_map(masks) ==
    LET zeros == [i \in DOMAIN masks["healthy"].data |-> Float(0)]
        healthy == assign_where(zeros, masks["healthy"], Float(1))
        mild == assign_where(healthy, masks["disease1"], Float(2))
    IN  assign_where(mild, masks["disease2"], Float(3))

\* overlay of create_simple_heatmap, before it is blurred.
simple_overlay(masks) ==
    LET zeros == [i \in DOMAIN masks["healthy"].data |-> <<0, 0, 0>>]
        healthy == assign_where(zeros, masks["healthy"], <<0, 200, 0>>)
        mild == assign_where(healthy, masks["disease1"], <<255, 200, 0>>)
    IN  assign_where(mild, masks["disease2"], <<255, 80, 0>>)

\* alpha of create_simple_heatmap, before it is blurred.
simple_alpha(masks) ==
    LET zeros == [i \in DOMAIN masks["healthy"].data |-> Float(0)]
        healthy == assign_where(zeros, masks["healthy"], Rat(6, 10))
        mild == assign_where(healthy, masks["disease1"], Rat(7, 10))
    IN  assign_where(mild, masks["disease2"], Rat(8, 10))

\* The flat colours of create_simple_heatmap's own fallback; a pixel outside
\* every mask keeps the image's colour.
flat_colors(masks) ==
    LET image == [i \in DOMAIN masks["healthy"].data |-> <<>>]
        healthy == assign_where(image, masks["healthy"], <<0, 255, 0>>)
        mild == assign_where(healthy, masks["disease1"], <<255, 255, 0>>)
    IN  assign_where(mild, masks["disease2"], <<255, 0, 0>>)

\* The ways create_heatmap_analysis can end: with its own heat map, with
\* create_simple_heatmap's after an exception (a missing scipy or
\* matplotlib), or with the flat colours after one more exception.
HeatmapMethods == {"heatmap", "simple", "flat"}

\* perform_color_analysis up to the maps the heat map is rendered from.
perform_color_analysis(file, method) ==
    LET image == imread(file)
    IN  IF image = None THEN None
        ELSE LET masks == masks_of(color_analysis_ranges, image)
             IN  CASE method = "heatmap" ->
                        [method |-> method, masks |-> masks,
                         intensity_map |-> intensity_map(masks)]
                   [] method = "simple" ->
                        [method |-> method, masks |-> masks,
                         overlay |-> simple_overlay(masks),
                         alpha |-> simple_alpha(masks)]
                   [] method = "flat" ->
                        [method |-> method, masks |-> masks,
                         analysis |-> flat_colors(masks)]

----------------------------------------------------------------------------
(* The images the viewers are given, and their calls *)

\* A pixel in the mild and the severe range of the mask crops, and one in
\* the healthy and the mild range of the colour analysis.
Ochre == <<15, 100, 50>>
Lime == <<35, 200, 200>>

\* Channel values on and next to the bounds of the viewers' ranges.
MaskHues == {0, 14, 15, 16, 19, 20, 34, 35, 36, 39, 40, 80, 81}
MaskSats == {0, 39, 40}
MaskVals == {0, 39, 40, 100, 101, 200, 201}

MaskImages ==
    {Array(1, 1, <<p>>) : p \in MaskHues \X MaskSats \X MaskVals}
      \cup {Array(1, 2, <<p, q>>) :
                p \in {Ochre, Lime}, q \in Palette \cup {Ochre, Lime}}
      \cup UNION {{Array(sh[1], sh[2], d) :
                      d \in [1..(sh[1] * sh[2]) -> {Black, Orange}]} :
                  sh \in Shapes}

MaskFiles == {Unreadable} \cup {ImageFile(img) : img \in MaskImages}

\* Lists of mask names: every list of up to two names, repeats included,
\* and the three names in every order.
Selections ==
    UNION {[1..n -> MaskNameSet] : n \in 0..2}
      \cup {sel \in [1..3 -> MaskNameSet] :
                {sel[i] : i \in 1..3} = MaskNameSet}

\* bg_color: the grey of the transparent choice, or white.
BgColors == {None, White}

InitMasks ==
    /\ color_ranges = [a \in Analyzers |-> InitColorRanges]
    /\ image_file \in MaskFiles
    /\ returned = [a \in Analyzers |-> NotCalled]
    /\ crops = NoCrops
    /\ results = EmptyDict
    /\ summary = EmptyDict
    /\ pc = "idle"
    /\ Idle

\* Everything but what the viewers show.
not_vista ==
    <<color_ranges, image_file, returned, crops, results, summary, pc,
      report, filtros, imagen_entrada, llamada, filtrada, devuelto,
      histograma, entrenamiento, visor, analisis>>

\* The viewer crops its current image by a list of masks.
ApplyMaskCrop ==
    /\ image_file.decodes
    /\ \E masks_selected \in Selections, bg_color \in BgColors :
          vista' = [site |-> "apply_mask_crop",
                    masks_selected |-> masks_selected,
                    combined_mask |->
                        viewer_combined_mask(imread(image_file),
                                             masks_selected),
                    result |-> apply_mask_crop(imread(image_file),
                                               masks_selected, bg_color)]
    /\ UNCHANGED not_vista

\* The analysis tab's zoom window crops the original image by its check
\* boxes.
ApplyMasks ==
    /\ \E checked \in SUBSET MaskNameSet, bg_white \in BOOLEAN :
          vista' = [site |-> "apply_masks",
                    checked |-> checked,
                    combined_mask |->
                        IF image_file.decodes
                        THEN tab_combined_mask(imread(image_file), checked)
                        ELSE None,
                    result |-> apply_masks(image_file, checked, bg_white)]
    /\ UNCHANGED not_vista

\* The analysis tab renders the heat map of the image.
PerformColorAnalysis ==
    /\ \E method \in HeatmapMethods :
          vista' = [site |-> "perform_color_analysis",
                    result |-> perform_color_analysis(image_file, method)]
    /\ UNCHANGED not_vista

NextMasks ==
    \/ ApplyMaskCrop
    \/ ApplyMasks
    \/ PerformColorAnalysis
    \/ AnalyzeLeafDamage("tab")

SpecMasks == InitMasks /\ [][NextMasks]_vars

----------------------------------------------------------------------------
(* Objects handed out by the filter bank: get_parametros_filtro and        *)
(* calcular_histograma_rgb, next to aplicar_filtro and the analyzer.       *)
(* A dict in a caller's hands is modelled with its items and, in `shares`, *)
(* the entry of parametros_default it is the same object as (None for an   *)
(* object of its own).                                                     *)

\* A new dict with the items of d.
dict_copy(d) == [shares |-> None, items |-> d]

\* get_parametros_filtro handing out the table's own dict.
get_parametros_filtro_no_copy(self, tipo_filtro) ==
    IF tipo_filtro \in DOMAIN self.parametros_default
    THEN [shares |-> [tipo_filtro |-> tipo_filtro],
          items |-> self.parametros_default[tipo_filtro]]
    ELSE dict_copy(EmptyDict)

\* get_parametros_filtro(tipo_filtro):
\* self.parametros_default.get(tipo_filtro, {}).copy()
get_parametros_filtro(self, tipo_filtro) ==
    dict_copy(get(self.parametros_default, tipo_filtro, EmptyDict))

\* cv2.calcHist([imagen], [channel], None, [256], [0, 256]).flatten()
calcHist(imagen, channel) ==
    [v \in 0..255 |->
        Cardinality({i \in DOMAIN imagen.data :
                        (IF is_color(imagen) THEN imagen.data[i][channel]
                         ELSE imagen.data[i]) = v})]

\* calcular_histograma_rgb(imagen)
calcular_histograma_rgb(imagen) ==
    IF is_color(imagen)
    THEN <<calcHist(imagen, 1), calcHist(imagen, 2), calcHist(imagen, 3)>>
    ELSE <<calcHist(imagen, 1), calcHist(imagen, 1), calcHist(imagen, 1)>>

\* The images and calls of the interleavings: a grey and a colour row.
SharedGreyImage == Array(1, 3, <<0, 255, 255>>)
SharedColourImage == GRAY2BGR(Array(1, 3, <<255, 0, 0>>))

SharedCalls ==
    {[tipo_filtro |-> t, parametros |-> None] : t \in FilterNames}
      \cup {[tipo_filtro |-> "Mediana", parametros |-> [kernel_size |-> 4]],
            [tipo_filtro |-> "Canny", parametros |-> None]}

\* The items a caller writes into a dict it was handed.
CallerWrites ==
    <<[key |-> "kernel_size", value |-> 7], [key |-> "direccion", value |-> "x"]>>

InitShared ==
    /\ color_ranges = [a \in Analyzers |-> InitColorRanges]
    /\ image_file \in {Unreadable, ImageFile(Array(1, 2, <<Green, Brown>>))}
    /\ returned = [a \in Analyzers |-> NotCalled]
    /\ crops = NoCrops
    /\ results = EmptyDict
    /\ summary = EmptyDict
    /\ pc = "idle"
    /\ report = [site \in Sites |-> NotCalled]
    /\ filtros = InitFiltros
    /\ imagen_entrada = SharedGreyImage \/ imagen_entrada = SharedColourImage
    /\ llamada \in SharedCalls
    /\ filtrada = NotCalled
    /\ vista = NotCalled
    /\ devuelto = NotCalled
    /\ histograma = NotCalled
    /\ entrenamiento = InitTrainTab
    /\ visor = InitViewer
    /\ analisis = InitAnalysisTab

\* A caller asks for the default parameters of a filter.
GetParametrosFiltro ==
    /\ \E tipo_filtro \in FilterNames \cup {"Canny"} :
          devuelto' = get_parametros_filtro(filtros, tipo_filtro)
    /\ UNCHANGED <<color_ranges, image_file, returned, crops, results,
                   summary, pc, report, filtros, imagen_entrada, llamada,
                   filtrada, vista, histograma, entrenamiento, visor, analisis>>

\* The caller writes an item into the dict it was handed; the write lands
\* in the object, whoever else holds it.
MutateReturned ==
    /\ devuelto # NotCalled
    /\ \E n \in DOMAIN CallerWrites :
          LET w == CallerWrites[n]
              items == dict_set(devuelto.items, w.key, w.value)
          IN  /\ devuelto' = [devuelto EXCEPT !.items = items]
              /\ filtros' =
                    IF devuelto.shares = None THEN filtros
                    ELSE [filtros EXCEPT
                            !.parametros_default[devuelto.shares.tipo_filtro]
                                = items]
    /\ UNCHANGED <<color_ranges, image_file, returned, crops, results,
                   summary, pc, report, imagen_entrada, llamada, filtrada,
                   vista, histograma, entrenamiento, visor, analisis>>

\* A caller asks for the histograms of the image.
CalcularHistogramaRgb ==
    /\ histograma' = calcular_histograma_rgb(imagen_entrada)
    /\ UNCHANGED <<color_ranges, image_file, returned, crops, results,
                   summary, pc, report, filtros, imagen_entrada, llamada,
                   filtrada, vista, devuelto, entrenamiento, visor, analisis>>

NextShared ==
    \/ AplicarFiltro
    \/ GetParametrosFiltro
    \/ MutateReturned
    \/ CalcularHistogramaRgb
    \/ \E a \in Analyzers : AnalyzeLeafDamage(a)

SpecShared == InitShared /\ [][NextShared]_vars

----------------------------------------------------------------------------
(* Steps of TrainTab and of the TrainingWorker thread *)

InitTraining ==
    /\ color_ranges = [a \in Analyzers |-> InitColorRanges]
    /\ image_file = Unreadable
    /\ returned = [a \in Analyzers |-> NotCalled]
    /\ crops = NoCrops
    /\ results = EmptyDict
    /\ summary = EmptyDict
    /\ pc = "idle"
    /\ Idle

\* Everything but the training tab.
not_training ==
    <<color_ranges, image_file, returned, crops, results, summary, pc,
      report, filtros, imagen_entrada, llamada, filtrada, vista, devuelto,
      histograma, visor, analisis>>

\* The worker thread has been started and run() has not returned.
isRunning(t) == t.pc \notin {"none", "finished"}

\* start_training: the user confirms, a new TrainingWorker is created and
\* started.
StartTraining ==
    /\ entrenamiento.start_btn
    /\ entrenamiento' =
          [InitTrainTab EXCEPT !.pc = "run", !.start_btn = FALSE,
                               !.stop_btn = TRUE,
                               !.queued = entrenamiento.queued]
    /\ UNCHANGED not_training

\* TrainingWorker.stop()
stop(t) ==
    [t EXCEPT !.should_stop = TRUE,
              !.process = IF t.process = "running" THEN "terminated"
                          ELSE t.process,
              !.stopped_in_cli = t.stopped_in_cli \/ t.process = "running"]

\* stop_training: the user presses the stop button and confirms.
StopTraining ==
    /\ entrenamiento.stop_btn
    /\ isRunning(entrenamiento)
    /\ entrenamiento' = stop(entrenamiento)
    /\ UNCHANGED not_training

\* run() up to the Popen of _try_yolo_cli_method: chdir may raise, the
\* yolo command may be missing, or the process starts.
RunPopen ==
    /\ entrenamiento.pc = "run"
    /\ \/ entrenamiento' = [entrenamiento EXCEPT !.pc = "emit_False"]
       \/ entrenamiento' =
             [entrenamiento EXCEPT !.pc = "fallback",
                                   !.attempts = Append(@, "cli")]
       \/ entrenamiento' =
             [entrenamiento EXCEPT !.pc = "loop", !.process = "running",
                                   !.attempts = Append(@, "cli")]
    /\ UNCHANGED not_training

\* The head of the while loop: `if self.should_stop`.
CheckShouldStop ==
    /\ entrenamiento.pc = "loop"
    /\ entrenamiento' =
          IF entrenamiento.should_stop
          THEN [entrenamiento EXCEPT
                  !.pc = "fallback",
                  !.process = IF @ = "running" THEN "terminated" ELSE @]
          ELSE [entrenamiento EXCEPT !.pc = "readline"]
    /\ UNCHANGED not_training

\* readline() returns a line, or '' at the end of the output of a process
\* that has exited, which leaves the loop.
ReadLine ==
    /\ entrenamiento.pc = "readline"
    /\ \/ /\ entrenamiento.pending > 0
          /\ entrenamiento' =
                [entrenamiento EXCEPT !.pc = "loop", !.pending = @ - 1]
       \/ /\ entrenamiento.pending = 0
          /\ entrenamiento.process # "running"
          /\ entrenamiento' = [entrenamiento EXCEPT !.pc = "return_code"]
    /\ UNCHANGED not_training

\* `return_code = self.process.poll()` and the return of the method.
ReturnCode ==
    /\ entrenamiento.pc = "return_code"
    /\ entrenamiento' =
          [entrenamiento EXCEPT
              !.pc = IF entrenamiento.process = "exited_0" THEN "emit_True"
                     ELSE "fallback"]
    /\ UNCHANGED not_training

\* `if not success: success = self._try_python_method()`: ultralytics is
\* missing, or model.train starts.
TryPythonMethod ==
    /\ entrenamiento.pc = "fallback"
    /\ \/ entrenamiento' =
             [entrenamiento EXCEPT !.pc = "emit_False",
                                   !.attempts = Append(@, "python")]
       \/ entrenamiento' =
             [entrenamiento EXCEPT !.pc = "python",
                                   !.attempts = Append(@, "python")]
    /\ UNCHANGED not_training

\* model.train returns or raises.
PythonTrained ==
    /\ entrenamiento.pc = "python"
    /\ \E next \in {"emit_True", "emit_False"} :
          entrenamiento' = [entrenamiento EXCEPT !.pc = next]
    /\ UNCHANGED not_training

\* self.training_completed.emit(success, ...) and the end of run().
EmitTrainingCompleted ==
    /\ entrenamiento.pc \in {"emit_True", "emit_False"}
    /\ LET success == entrenamiento.pc = "emit_True"
       IN  entrenamiento' =
               [entrenamiento EXCEPT !.pc = "finished",
                                     !.emitted = Append(@, success),
                                     !.queued = Append(@, success)]
    /\ UNCHANGED not_training

\* The yolo process writes a line of output.
ProcessWrites ==
    /\ entrenamiento.process = "running"
    /\ entrenamiento.written < MaxOutput
    /\ entrenamiento' =
          [entrenamiento EXCEPT !.pending = @ + 1, !.written = @ + 1]
    /\ UNCHANGED not_training

\* The yolo process exits by itself, with code 0 or another.
ProcessExits ==
    /\ entrenamiento.process = "running"
    /\ \E code \in {"exited_0", "exited_1"} :
          entrenamiento' = [entrenamiento EXCEPT !.process = code]
    /\ UNCHANGED not_training

\* on_training_completed, run by the tab for a queued signal.
OnTrainingCompleted ==
    /\ entrenamiento.queued # <<>>
    /\ entrenamiento' =
          [entrenamiento EXCEPT !.queued = Tail(@), !.start_btn = TRUE,
                                !.stop_btn = FALSE]
    /\ UNCHANGED not_training

NextTraining ==
    \/ StartTraining
    \/ StopTraining
    \/ RunPopen
    \/ CheckShouldStop
    \/ ReadLine
    \/ ReturnCode
    \/ TryPythonMethod
    \/ PythonTrained
    \/ EmitTrainingCompleted
    \/ ProcessWrites
    \/ ProcessExits
    \/ OnTrainingCompleted

SpecTraining == InitTraining /\ [][NextTraining]_vars

----------------------------------------------------------------------------
(* Steps of AdvancedImageViewer and of its FilterWorker threads *)

\* The entries of filter_combo the user moves between, and the values of
\* the kernel spin box.
ComboFilters == {"Media", "Mediana"}
KernelSpins == {3, 5}

\* self.current_image
current_image == GRAY2BGR(Array(1, 3, <<255, 0, 0>>))

InitViewers ==
    /\ color_ranges = [a \in Analyzers |-> InitColorRanges]
    /\ image_file = Unreadable
    /\ returned = [a \in Analyzers |-> NotCalled]
    /\ crops = NoCrops
    /\ results = EmptyDict
    /\ summary = EmptyDict
    /\ pc = "idle"
    /\ Idle

\* Everything but the viewer.
not_visor ==
    <<color_ranges, image_file, returned, crops, results, summary, pc,
      report, filtros, imagen_entrada, llamada, filtrada, vista, devuelto,
      histograma, entrenamiento, analisis>>

\* get_current_params
get_current_params(v) ==
    IF v.filter_combo = SinFiltro THEN EmptyDict
    ELSE [kernel_size |-> v.kernel_spin]

\* on_filter_changed: the user selects another entry of filter_combo, a
\* filter or the entry without one; create_filter_params sets the spin box
\* to the filter's default.
OnFilterChanged ==
    /\ \/ \E filter_name \in ComboFilters :
             /\ visor.filter_combo # filter_name
             /\ visor' =
                   [visor EXCEPT
                      !.filter_combo = filter_name,
                      !.kernel_spin =
                          get(get_parametros_filtro(InitFiltros,
                                                    filter_name).items,
                              "kernel_size", 5),
                      !.apply_btn = TRUE]
       \/ /\ visor.filter_combo # SinFiltro
          /\ visor' = [visor EXCEPT !.filter_combo = SinFiltro,
                                    !.apply_btn = FALSE]
    /\ UNCHANGED not_visor

\* on_params_changed: the user changes the value of the spin box.
OnParamsChanged ==
    /\ visor.filter_combo # SinFiltro
    /\ \E value \in KernelSpins \ {visor.kernel_spin} :
          visor' = [visor EXCEPT !.kernel_spin = value,
                                 !.apply_text = "Aplicar Cambios"]
    /\ UNCHANGED not_visor

\* apply_current_filter: the user presses the enabled apply button; a new
\* FilterWorker takes the place of self.filter_worker and is started.
ApplyCurrentFilter ==
    /\ visor.apply_btn
    /\ Len(visor.workers) < MaxRequests
    /\ visor' =
          IF visor.filter_combo = SinFiltro THEN visor
          ELSE [visor EXCEPT
                  !.apply_text = "Aplicando...",
                  !.apply_btn = FALSE,
                  !.workers =
                      Append(@, [image |-> current_image,
                                 filter_type |-> visor.filter_combo,
                                 params |-> get_current_params(visor),
                                 running |-> TRUE]),
                  !.filter_worker = Len(visor.workers) + 1]
    /\ UNCHANGED not_visor

\* The exceptions FilterWorker.run answers with filter_failed.
Failures == {Raised, ValueError, cv2_error}

\* FilterWorker.run of worker w: the filter is applied and one signal is
\* emitted; the call can raise whatever the filter raises, or any other
\* exception (MemoryError).
FilterWorkerRun(w) ==
    /\ visor.workers[w].running
    /\ \E filtered \in
             {o.value : o \in aplicar_filtro(InitFiltros,
                                             visor.workers[w].image,
                                             visor.workers[w].filter_type,
                                             visor.workers[w].params)}
                 \cup {Raised} :
          visor' =
              [visor EXCEPT
                 !.workers[w].running = FALSE,
                 !.queued =
                     Append(@, IF filtered \in Failures
                               THEN [signal |-> "filter_failed", worker |-> w]
                               ELSE [signal |-> "filter_applied", worker |-> w,
                                     filtered_image |-> filtered])]
    /\ UNCHANGED not_visor

\* on_filter_applied, run by the viewer for a queued filter_applied.
OnFilterApplied ==
    /\ visor.queued # <<>>
    /\ Head(visor.queued).signal = "filter_applied"
    /\ visor' = [visor EXCEPT
                   !.queued = Tail(@),
                   !.filtered_image = Head(visor.queued).filtered_image,
                   !.shown_from = Head(visor.queued).worker,
                   !.apply_text = "Aplicar Filtro",
                   !.apply_btn = TRUE]
    /\ UNCHANGED not_visor

\* on_filter_failed, run by the viewer for a queued filter_failed.
OnFilterFailed ==
    /\ visor.queued # <<>>
    /\ Head(visor.queued).signal = "filter_failed"
    /\ visor' = [visor EXCEPT !.queued = Tail(@),
                              !.apply_text = "Error",
                              !.apply_btn = TRUE]
    /\ UNCHANGED not_visor

NextViewers ==
    \/ OnFilterChanged
    \/ OnParamsChanged
    \/ ApplyCurrentFilter
    \/ \E w \in 1..MaxRequests : w <= Len(visor.workers) /\ FilterWorkerRun(w)
    \/ OnFilterApplied
    \/ OnFilterFailed

SpecViewers == InitViewers /\ [][NextViewers]_vars

----------------------------------------------------------------------------
(* Steps of AnalysisTab and of the AnalysisWorker thread; pc is the        *)
(* position of the worker's run()                                          *)

\* The crops directories of at most two entries.
SmallDirectories == {dir \in Directories : Cardinality(dir.files) <= 2}

InitAnalysis ==
    /\ color_ranges = [a \in Analyzers |-> InitColorRanges]
    /\ image_file = Unreadable
    /\ returned = [a \in Analyzers |-> NotCalled]
    /\ crops \in SmallDirectories \cup {NoCrops}
    /\ results = EmptyDict
    /\ summary = EmptyDict
    /\ pc = "idle"
    /\ Idle

\* Everything but the analysis tab, the worker's position and the report
\* of the statistics.
not_analisis ==
    <<color_ranges, image_file, returned, crops, results, summary, filtros,
      imagen_entrada, llamada, filtrada, vista, devuelto, histograma,
      entrenamiento, visor>>

\* start_analysis: the user presses the enabled analyse button; without a
\* crops directory the tab only warns.
StartAnalysis ==
    /\ analisis.analyze_btn
    /\ pc \in {"idle", "finished"}
    /\ analisis.queued = <<>>
    /\ IF ~crops.exists THEN UNCHANGED <<analisis, pc>>
       ELSE /\ analisis' = [analisis EXCEPT !.analyze_btn = FALSE,
                                            !.emitted = <<>>,
                                            !.raised = FALSE,
                                            !.handled = FALSE]
            /\ pc' = "start"
    /\ UNCHANGED <<not_analisis, report>>

\* self.analysis_completed.emit(success, data)
emit(t, success, data) ==
    [t EXCEPT !.emitted = Append(@, [success |-> success, data |-> data]),
              !.queued = Append(@, [success |-> success, data |-> data])]

\* run(): analyze_crops_directory raises (a folder that cannot be listed),
\* and the except branch emits.
ScanRaises ==
    /\ pc = "start"
    /\ analisis' = emit([analisis EXCEPT !.raised = TRUE], FALSE, EmptyDict)
    /\ pc' = "finished"
    /\ UNCHANGED <<not_analisis, report>>

\* run(): `if results:` holds and the summary is computed.
RunCalculateSummary ==
    /\ results # EmptyDict
    /\ CalculateSummaryStatistics

\* run(): the emission of the branch `if results:`.
EmitCompleted ==
    /\ pc = "summarised"
    /\ analisis' = emit(analisis, TRUE,
                        [results |-> results, summary |-> summary])
    /\ pc' = "finished"
    /\ UNCHANGED <<not_analisis, report>>

\* run(): the else branch of `if results:`.
EmitNoResults ==
    /\ pc = "scanned"
    /\ results = EmptyDict
    /\ analisis' = emit(analisis, FALSE, EmptyDict)
    /\ pc' = "finished"
    /\ UNCHANGED <<not_analisis, report>>

\* on_analysis_completed leaving the two buttons as they are when the run
\* failed.
on_analysis_completed_keep_buttons(t, success, data) ==
    LET enabled == [t EXCEPT !.analyze_btn = TRUE, !.handled = TRUE]
    IN  IF success /\ data # EmptyDict
        THEN LET shown == [enabled EXCEPT
                             !.current_results = data.results,
                             !.current_summary = data.summary]
             IN  IF generate_general_statistics(data.summary) = Raised
                 THEN shown
                 ELSE [shown EXCEPT !.export_btn = TRUE, !.stats_btn = TRUE]
        ELSE enabled

\* on_analysis_completed(success, data): the tab after the slot has run.
\* An exception of display_results (of its generate_general_statistics)
\* leaves the slot before the two buttons are enabled.
on_analysis_completed(t, success, data) ==
    LET enabled == [t EXCEPT !.analyze_btn = TRUE, !.handled = TRUE]
    IN  IF success /\ data # EmptyDict
        THEN LET shown == [enabled EXCEPT
                             !.current_results = data.results,
                             !.current_summary = data.summary]
             IN  IF generate_general_statistics(data.summary) = Raised
                 THEN shown
                 ELSE [shown EXCEPT !.export_btn = TRUE, !.stats_btn = TRUE]
        ELSE [enabled EXCEPT !.export_btn = FALSE, !.stats_btn = FALSE]

\* The tab handles a queued analysis_completed.
OnAnalysisCompleted ==
    /\ analisis.queued # <<>>
    /\ LET signal == Head(analisis.queued)
       IN  /\ analisis' =
                 on_analysis_completed([analisis EXCEPT !.queued = Tail(@)],
                                       signal.success, signal.data)
           /\ report' =
                 IF signal.success /\ signal.data # EmptyDict
                 THEN [report EXCEPT !["generate_general_statistics"] =
                          generate_general_statistics(signal.data.summary)]
                 ELSE report
    /\ UNCHANGED <<not_analisis, pc>>

NextAnalysis ==
    \/ StartAnalysis
    \/ AnalyzeCropsDirectory
    \/ ScanRaises
    \/ RunCalculateSummary
    \/ EmitCompleted
    \/ EmitNoResults
    \/ OnAnalysisCompleted

SpecAnalysis == InitAnalysis /\ [][NextAnalysis]_vars

----------------------------------------------------------------------------
(* Claims about analyze_leaf_damage *)

\* Analyzer a has returned a result dict (neither no call yet, nor None).
HasResult(a) == returned[a] # NotCalled /\ returned[a] # None

\* |x - n| <= 10^-6 for a rational x and an integer n.
Within1e6(x, n) == Abs(x.num - n * x.den) * 1000000 <= x.den

\* C1: whenever analyze_leaf_damage classified at least one pixel, the
\* returned sano + afectado + severo is 100 within 1e-6.
C1_PercentageClosure ==
    \A a \in Analyzers :
        (HasResult(a) /\ returned[a].total_pixels > 0) =>
            Within1e6(RatAdd(RatAdd(returned[a].sano, returned[a].afectado),
                             returned[a].severo), 100)

\* A result with classified pixels whose percentages are not whole numbers.
C1_Witness ==
    \E a \in Analyzers :
        /\ HasResult(a)
        /\ returned[a].total_pixels = 3
        /\ returned[a].sano.den = 3
        /\ returned[a].severo.num > 0

\* Number of non-zero entries of a mask, counted entry by entry.
RECURSIVE NonZeroUpTo(_, _)
NonZeroUpTo(data, n) ==
    IF n = 0 THEN 0
    ELSE NonZeroUpTo(data, n - 1) + (IF data[n] # 0 THEN 1 ELSE 0)

MaskCount(a, state) ==
    NonZeroUpTo(returned[a].masks[state].data,
                Len(returned[a].masks[state].data))

\* C2: total is the sum of the three masks' non-zero counts, each percentage
\* is exactly 100 * count / total, and afectacion_total is afectado + severo.
C2_PercentagesFromCounts ==
    \A a \in Analyzers :
        (HasResult(a) /\ returned[a].total_pixels > 0) =>
            LET r == returned[a]
                total == MaskCount(a, "sano") + MaskCount(a, "afectado")
                            + MaskCount(a, "severo")
            IN  /\ r.total_pixels = total
                /\ \A state \in StateNames :
                      /\ r[state].num * total = 100 * MaskCount(a, state) * r[state].den
                      /\ r.pixel_counts[state] = MaskCount(a, state)
                /\ r.afectacion_total = RatAdd(r.afectado, r.severo)

\* A result where both afectado and severo are present and not whole.
C2_Witness ==
    \E a \in Analyzers :
        /\ HasResult(a)
        /\ returned[a].total_pixels = 3
        /\ returned[a].afectado = Rat(100, 3)
        /\ returned[a].severo = Rat(100, 3)

\* No pixel of the decoded file lies inside any of analyzer a's ranges.
NothingClassified(a) ==
    /\ image_file.decodes
    /\ \A i \in DOMAIN image_file.pixels.data :
          \A state \in StateNames :
              \E c \in 1..3 :
                  \/ image_file.pixels.data[i][c] < color_ranges[a][state].lower[c]
                  \/ image_file.pixels.data[i][c] > color_ranges[a][state].upper[c]

\* C3: a readable image without any pixel in a range yields a result dict
\* with all four percentages 0.0 and total_pixels 0, never None (the
\* outcome of an unreadable file and of a division by zero).
C3_ZeroPixelsIsValid ==
    \A a \in Analyzers :
        (returned[a] # NotCalled /\ NothingClassified(a)) =>
            /\ returned[a] # None
            /\ returned[a].sano = Float(0)
            /\ returned[a].afectado = Float(0)
            /\ returned[a].severo = Float(0)
            /\ returned[a].afectacion_total = Float(0)
            /\ returned[a].total_pixels = 0

\* An all-black image of two pixels has been analysed.
C3_Witness ==
    /\ image_file = ImageFile(Array(1, 2, <<Black, Black>>))
    /\ \E a \in Analyzers : HasResult(a) /\ returned[a].total_pixels = 0

\* C4: an unreadable file yields None and never a result dict, and a
\* readable file always yields a result dict: the two are distinguishable.
C4_UnreadableIsDistinct ==
    \A a \in Analyzers :
        returned[a] # NotCalled =>
            /\ ~image_file.decodes => returned[a] = None
            /\ image_file.decodes =>
                  /\ returned[a] # None
                  /\ "afectacion_total" \in DOMAIN returned[a]

\* An unreadable file has been analysed.
C4_Witness ==
    /\ image_file = Unreadable
    /\ \E a \in Analyzers : returned[a] = None

\* Pixel p lies in [lo, hi] on every channel, both ends included.
Inside(p, lo, hi) == \A c \in 1..3 : lo[c] <= p[c] /\ p[c] <= hi[c]

\* C5: the sano bit of a pixel is set iff 35<=H<=85, 50<=S<=255,
\* 50<=V<=255, and the severo bit iff 5<=H<=19, 30<=S<=255, 20<=V<=200.
C5_HealthySevereRanges ==
    \A a \in Analyzers :
        HasResult(a) =>
            \A i \in DOMAIN image_file.pixels.data :
                LET p == image_file.pixels.data[i]
                IN  /\ (returned[a].masks["sano"].data[i] # 0) <=>
                          Inside(p, <<35, 50, 50>>, <<85, 255, 255>>)
                    /\ (returned[a].masks["severo"].data[i] # 0) <=>
                          Inside(p, <<5, 30, 20>>, <<19, 255, 200>>)

\* A pixel on the upper hue, lower saturation and upper value bound of the
\* severo range has been classified as severo.
C5_Witness ==
    /\ image_file = ImageFile(Array(1, 1, <<(<<19, 30, 200>>)>>))
    /\ \E a \in Analyzers :
          HasResult(a) /\ returned[a].masks["severo"].data[1] = 255

\* C6 as stated: the afectado bit of a pixel is set iff 15<=H<=34,
\* 50<=S<=255, 50<=V<=255.
C6_MildFrom15 ==
    \A a \in Analyzers :
        HasResult(a) =>
            \A i \in DOMAIN image_file.pixels.data :
                (returned[a].masks["afectado"].data[i] # 0) <=>
                    Inside(image_file.pixels.data[i],
                           <<15, 50, 50>>, <<34, 255, 255>>)

\* C6 amended: the afectado bit of a pixel is set iff 20<=H<=34,
\* 50<=S<=255, 50<=V<=255; a pixel of hue 15..19 is never in the afectado
\* mask, and is in the severo mask when 30<=S and 20<=V<=200.
C6_MildFrom20 ==
    \A a \in Analyzers :
        HasResult(a) =>
            \A i \in DOMAIN image_file.pixels.data :
                LET p == image_file.pixels.data[i]
                IN  /\ (returned[a].masks["afectado"].data[i] # 0) <=>
                          Inside(p, <<20, 50, 50>>, <<34, 255, 255>>)
                    /\ (15 <= p[1] /\ p[1] <= 19) =>
                          returned[a].masks["afectado"].data[i] = 0
                    /\ Inside(p, <<15, 30, 20>>, <<19, 255, 200>>) =>
                          returned[a].masks["severo"].data[i] # 0

\* A pixel of hue 17 with S, V >= 50 has been classified: not afectado.
C6_Witness ==
    /\ image_file = ImageFile(Array(1, 1, <<(<<17, 200, 200>>)>>))
    /\ \E a \in Analyzers :
          /\ HasResult(a)
          /\ returned[a].masks["afectado"].data[1] = 0
          /\ returned[a].masks["severo"].data[1] = 255

\* The 2x2 image of the scenario.
ScenarioFile == ImageFile(Array(2, 2, <<Green, Yellow, Brown, Black>>))

\* C7: for the 2x2 image (60,200,200), (25,200,200), (10,100,50), (0,0,0)
\* each mask holds exactly one pixel, none the black one, total is 3, each
\* percentage is 100/3 and afectacion_total is 200/3.
C7_Scenario ==
    \A a \in Analyzers :
        (image_file = ScenarioFile /\ returned[a] # NotCalled) =>
            /\ returned[a] # None
            /\ returned[a].masks["sano"].data = <<255, 0, 0, 0>>
            /\ returned[a].masks["afectado"].data = <<0, 255, 0, 0>>
            /\ returned[a].masks["severo"].data = <<0, 0, 255, 0>>
            /\ returned[a].total_pixels = 3
            /\ \A state \in StateNames :
                  returned[a][state].num = 100 /\ returned[a][state].den = 3
            /\ returned[a].afectacion_total.num = 200
            /\ returned[a].afectacion_total.den = 3

\* The scenario image has been analysed.
C7_Witness ==
    /\ image_file = ScenarioFile
    /\ \E a \in Analyzers : HasResult(a)

----------------------------------------------------------------------------
(* Claims about the rollup *)

SummaryKeys == {"sano", "afectado", "severo", "afectacion_total"}

\* The sum of field `key` over the first n samples of a group.
RECURSIVE Total(_, _, _)
Total(samples, key, n) ==
    IF n = 0 THEN Float(0)
    ELSE RatAdd(Total(samples, key, n - 1), samples[n][key])

\* C9: for every (image number, category) group of N >= 1 samples the
\* summary holds count = N and, for each of the four fields, the sum of the
\* N sample values divided by N; samples 10, 20, 30 give mean 20, count 3.
C9_RollupMean ==
    pc = "summarised" =>
        \A n \in DOMAIN results :
            \A c \in DOMAIN results[n] :
                LET samples == results[n][c]
                    N == Len(samples)
                IN  N >= 1 =>
                      /\ n \in DOMAIN summary
                      /\ c \in DOMAIN summary[n]
                      /\ summary[n][c].count = N
                      /\ \A key \in SummaryKeys :
                            /\ summary[n][c][key] # NaN
                            /\ RatMulInt(summary[n][c][key], N)
                                  = Total(samples, key, N)
                      /\ ({samples[i].afectacion_total : i \in 1..N}
                              = {Float(10), Float(20), Float(30)} /\ N = 3)
                            => summary[n][c].afectacion_total = Float(20)

\* A group of three samples with afectacion_total 10, 20 and 30 has been
\* rolled up.
C9_Witness ==
    /\ pc = "summarised"
    /\ \E n \in DOMAIN results :
          \E c \in DOMAIN results[n] :
              /\ Len(results[n][c]) = 3
              /\ {results[n][c][i].afectacion_total : i \in 1..3}
                    = {Float(10), Float(20), Float(30)}
              /\ summary[n][c].count = 3

\* One order of visit of the directory, the same in every state.
ReferenceOrder == CHOOSE order \in IterdirOrders(crops) : TRUE

----------------------------------------------------------------------------
(* Claims about empty groups and the severity distributions *)

\* The (image, category) groups of analysis_results without any sample.
EmptyGroups ==
    UNION {{<<i, c>> : c \in {d \in DOMAIN results[i] : results[i][d] = <<>>}} :
             i \in DOMAIN results}

\* C11 as stated: a rollup over a group with zero samples raises an error
\* instead of returning a summary (pc = "summarised" is the call having
\* returned one), and no image of a returned summary has an empty map of
\* category statistics.
C11_EmptyGroupSignalled ==
    pc = "summarised" =>
        /\ EmptyGroups = {}
        /\ \A i \in DOMAIN summary : DOMAIN summary[i] # {}

\* C11 amended: calculate_summary_statistics returns a summary whatever
\* the groups hold and signals nothing; the summary has one entry per image of analysis_results, holding exactly the
\* categories with at least one sample: a group with zero samples is left
\* out without notice, and an image all of whose groups are empty (or that
\* has none) gets an empty map.
C11_EmptyGroupSkipped ==
    pc = "summarised" =>
        /\ DOMAIN summary = DOMAIN results
        /\ \A i \in DOMAIN results :
              /\ DOMAIN summary[i] =
                    {c \in DOMAIN results[i] : Len(results[i][c]) >= 1}
              /\ \A c \in DOMAIN summary[i] :
                    /\ summary[i][c] # NaN
                    /\ summary[i][c].count = Len(results[i][c])
                    /\ summary[i][c].afectacion_total # NaN

\* A rollup of two images: one with an empty "tallo" group next to a
\* sampled "hoja" group, one whose only group is empty.
C11_Witness ==
    /\ pc = "summarised"
    /\ DOMAIN results = {1, 2}
    /\ DOMAIN results[1] = {"hoja", "tallo"}
    /\ Len(results[1]["hoja"]) = 1
    /\ results[1]["tallo"] = <<>>
    /\ results[2] = [c \in {"hoja"} |-> <<>>]
    /\ DOMAIN summary[1] = {"hoja"}
    /\ summary[2] = EmptyDict

\* The site has run and produced a distribution (it neither returned early,
\* nor skipped the distribution, nor raised).
HasDistribution(site) ==
    /\ report[site] # NotCalled
    /\ report[site] # None
    /\ report[site] # Raised

\* The four bucket counts of a site's distribution, near-healthy first.
BucketCounts(site) ==
    IF site = "create_severity_distribution_tab"
        THEN report[site].sizes
        ELSE [k \in 1..4 |-> report[site].lines[k].count]

\* The (image, category) entries of the summary and their totals.
SummaryEntries ==
    UNION {{<<i, c>> : c \in DOMAIN summary[i]} : i \in DOMAIN summary}

TotalOf(e) == summary[e[1]][e[2]].afectacion_total

\* The total x lies in band k: 1 is x < 10, 2 is 10 <= x < 30, 3 is
\* 30 <= x < 70, 4 is 70 <= x.
InBand(x, k) ==
    LET from == <<0, 10, 30, 70>>
        below == <<10, 30, 70, 0>>
    IN  /\ k = 1 \/ from[k] * x.den <= x.num
        /\ k = 4 \/ x.num < below[k] * x.den

C13_BandsPartition ==
    \A site \in Sites :
        HasDistribution(site) =>
            LET counts == BucketCounts(site)
                n == Cardinality(SummaryEntries)
            IN  /\ \A e \in SummaryEntries :
                      Cardinality({k \in 1..4 : InBand(TotalOf(e), k)}) = 1
                /\ counts[1] + counts[2] + counts[3] + counts[4] = n
                /\ report[site].total = n
                /\ site # "create_severity_distribution_tab" =>
                      \A k \in 1..4 :
                          LET line == report[site].lines[k]
                          IN  /\ line.percentage.num * n =
                                     100 * counts[k] * line.percentage.den
                              /\ line.shown.den \in {1, 2, 5, 10}
                              /\ 20 * Abs(line.shown.num * line.percentage.den
                                          - line.percentage.num
                                              * line.shown.den)
                                     <= line.shown.den * line.percentage.den
                /\ site = "create_severity_distribution_tab" =>
                      /\ \A j \in DOMAIN report[site].pie :
                            report[site].pie[j] > 0
                      /\ Len(report[site].pie) =
                            Cardinality({k \in 1..4 : counts[k] > 0})

\* Three totals in three different bands have been bucketed at every site:
\* each percentage is a third of 100.
C13_Witness ==
    /\ Cardinality(SummaryEntries) = 3
    /\ \A site \in Sites :
          /\ HasDistribution(site)
          /\ Cardinality({k \in 1..4 : BucketCounts(site)[k] = 1}) = 3
    /\ report["create_general_stats_tab"].lines[4].percentage = Rat(100, 3)
    /\ report["create_general_stats_tab"].lines[4].shown = Rat(333, 10)

----------------------------------------------------------------------------
(* Claims about the filter bank *)

\* aplicar_filtro has been called and has returned or raised.
Called == filtrada # NotCalled

IsError(x) == x \in {ValueError, cv2_error, Raised}

\* The parametros the called filter works with, None read as no key given.
GivenParams == IF llamada.parametros = None THEN EmptyDict
               ELSE llamada.parametros

\* C15: a call of aplicar_filtro with a name outside the six registered
\* filters raises the unsupported-filter error (ValueError) instead of
\* returning any filter's image, and leaves the input image, the filter
\* table and the default-parameter table as they were.
C15_UnknownFilterSignalled ==
    [][llamada.tipo_filtro \notin FilterNames =>
          /\ filtrada' = ValueError
          /\ imagen_entrada' = imagen_entrada
          /\ filtros' = filtros
          /\ filtros'.filtros_disponibles = FilterNames]_vars

\* The unknown filter "Canny" has been asked for, with parametros given.
C15_Witness ==
    /\ llamada.tipo_filtro = "Canny"
    /\ llamada.parametros = [kernel_size |-> 5]
    /\ filtrada = ValueError
    /\ filtros = InitFiltros

\* The documented defaults: kernel_size 5, sigma 1.0, direction both
\* ('ambas'), connectivity 4 ('4-conectado').
DocumentedDefaults(tipo_filtro) ==
    CASE tipo_filtro = "Gaussiano" -> [kernel_size |-> 5, sigma |-> Float(1)]
      [] tipo_filtro \in {"Media", "Mediana"} -> [kernel_size |-> 5]
      [] tipo_filtro \in {"Sobel", "Prewitt"} -> [direccion |-> "ambas"]
      [] OTHER -> [tipo |-> "4-conectado"]

\* The given parametros with every missing key set to its documented
\* default.
ExplicitParams ==
    LET defaults == DocumentedDefaults(llamada.tipo_filtro)
    IN  [key \in DOMAIN defaults \cup DOMAIN GivenParams |->
            IF key \in DOMAIN GivenParams THEN GivenParams[key]
            ELSE defaults[key]]

\* C16: for each of the six filters, what a call returns with parametros
\* omitted, empty or lacking a key is what the call with the missing keys
\* set to kernel_size 5, sigma 1.0, direction both, connectivity 4 returns.
C16_DefaultsFillMissing ==
    (Called /\ llamada.tipo_filtro \in FilterNames) =>
        \E explicit \in aplicar_filtro(InitFiltros, imagen_entrada,
                                       llamada.tipo_filtro, ExplicitParams) :
            filtrada = explicit.value

\* The Gaussian filter called without parametros has used size 5 and
\* sigma 1.0.
C16_Witness ==
    /\ llamada = [tipo_filtro |-> "Gaussiano", parametros |-> None]
    /\ Called
    /\ filtrada.ksize = <<5, 5>>
    /\ filtrada.sigmaX = Float(1)
    /\ ExplicitParams = [kernel_size |-> 5, sigma |-> Float(1)]

\* C17: Gaussian, Mean and Median called with an even kernel_size k filter
\* with size k + 1, giving what the call with kernel_size k + 1 gives (4
\* gives what 5 gives), and with an odd kernel_size filter with that size.
C17_EvenKernelBumped ==
    (/\ Called
     /\ llamada.tipo_filtro \in {"Gaussiano", "Media", "Mediana"}
     /\ "kernel_size" \in DOMAIN llamada.parametros
     /\ ~IsError(filtrada)) =>
        LET k == llamada.parametros.kernel_size
            next == [llamada.parametros EXCEPT !.kernel_size = k + 1]
        IN  IF k % 2 = 0
                THEN /\ filtrada.ksize = <<k + 1, k + 1>>
                     /\ \E odd \in aplicar_filtro(InitFiltros, imagen_entrada,
                                                  llamada.tipo_filtro, next) :
                           filtrada = odd.value
                ELSE filtrada.ksize = <<k, k>>

\* The median filter called with kernel_size 4 has filtered with size 5.
C17_Witness ==
    /\ llamada = [tipo_filtro |-> "Mediana",
                  parametros |-> [kernel_size |-> 4]]
    /\ Called
    /\ filtrada = [op |-> "medianBlur", src |-> imagen_entrada,
                   ksize |-> <<5, 5>>]

\* C18: Sobel or Prewitt called with a direction other than x, y, both,
\* Laplacian called with a connectivity other than the two supported ones,
\* or a smoothing filter called with a negative kernel size gives an error
\* and no image.
C18_InvalidParameterSignalled ==
    LET p == GivenParams
        invalid ==
            \/ /\ llamada.tipo_filtro \in {"Sobel", "Prewitt"}
               /\ "direccion" \in DOMAIN p
               /\ p.direccion \notin {"x", "y", "ambas"}
            \/ /\ llamada.tipo_filtro = "Laplaciano"
               /\ "tipo" \in DOMAIN p
               /\ p.tipo \notin {"4-conectado", "8-conectado"}
            \/ /\ llamada.tipo_filtro \in {"Gaussiano", "Media", "Mediana"}
               /\ "kernel_size" \in DOMAIN p
               /\ p.kernel_size < 0
    IN  (Called /\ invalid) => IsError(filtrada)

\* The direction a call asks for, 'ambas' when it names none.
Direction == get(GivenParams, "direccion", "ambas")

\* The grey values of the returned image: of a colour image, the blue
\* channel.
GreyOf(image) ==
    IF is_color(image) THEN [i \in DOMAIN image.data |-> image.data[i][1]]
    ELSE image.data

\* v is the response g brought into 0..255: 0 below, 255 above.
Clipped(v, g) ==
    IF g < 0 THEN v = 0 ELSE IF g > 255 THEN v = 255 ELSE v = g

\* v is the square root of n with its fraction dropped, or 255 when the
\* root is 255 or more.
ClippedRoot(v, n) ==
    IF n >= 255 * 255 THEN v = 255
    ELSE v * v <= n /\ n < (v + 1) * (v + 1)

\* C19: Laplacian, Sobel and Prewitt return 8-bit values 0..255 only (the
\* same on the three channels of a colour result) although the responses
\* they compute leave that range; each Sobel pixel for direction both is
\* sqrt(gx^2 + gy^2) cut at 255 with its fraction dropped, and for x or y
\* the response itself with 0 for a negative and 255 for one above 255:
\* nowhere the response modulo 256.
C19_EdgeOutputsClipped ==
    (Called /\ llamada.tipo_filtro \in {"Laplaciano", "Sobel", "Prewitt"}) =>
        LET out == GreyOf(filtrada)
            gris == imagen_gris(imagen_entrada)
            gx == Sobel(gris, 1, 0).data
            gy == Sobel(gris, 0, 1).data
        IN  /\ filtrada.shape = imagen_entrada.shape
            /\ DOMAIN out = DOMAIN gris.data
            /\ \A i \in DOMAIN out : out[i] \in 0..255
            /\ is_color(filtrada) =>
                  \A i \in DOMAIN out :
                      filtrada.data[i] = <<out[i], out[i], out[i]>>
            /\ llamada.tipo_filtro = "Sobel" =>
                  \A i \in DOMAIN out :
                      CASE Direction = "ambas" ->
                               ClippedRoot(out[i],
                                           gx[i] * gx[i] + gy[i] * gy[i])
                        [] Direction = "x" -> Clipped(out[i], gx[i])
                        [] Direction = "y" -> Clipped(out[i], gy[i])
                        [] OTHER -> TRUE

\* Sobel for both directions has run on an image where one pixel's
\* magnitude, of a negative gx and a positive gy, is above 255 (returned as
\* 255) and another's is a whole number below 255 (returned as it is).
C19_Witness ==
    /\ Called
    /\ llamada = [tipo_filtro |-> "Sobel",
                  parametros |-> [direccion |-> "ambas"]]
    /\ LET gris == imagen_gris(imagen_entrada)
           gx == Sobel(gris, 1, 0).data
           gy == Sobel(gris, 0, 1).data
           n(i) == gx[i] * gx[i] + gy[i] * gy[i]
           out == GreyOf(filtrada)
       IN  /\ \E i \in DOMAIN gx :
                 /\ gx[i] < 0 /\ gy[i] > 0
                 /\ n(i) > 255 * 255
                 /\ out[i] = 255
           /\ \E i \in DOMAIN gx :
                 /\ 0 < n(i) /\ n(i) < 255 * 255
                 /\ out[i] * out[i] = n(i)

\* The lines 145-155 of the Sobel filter with its two kernels replaced by
\* kx and ky.
SobelPipeline(imagen, direccion, kx, ky) ==
    LET gris == imagen_gris(imagen)
        sobel ==
            IF direccion = "x" THEN filter2D(gris, kx)
            ELSE IF direccion = "y" THEN filter2D(gris, ky)
            ELSE np_sqrt_squares(filter2D(gris, kx), filter2D(gris, ky))
    IN  like_input(imagen, clip_uint8(sobel))

\* C20: what Prewitt returns for a direction is what the Sobel pipeline
\* returns once its kernels are the +-1 kernels: negative responses,
\* magnitude and clipping are treated alike.
C20_PrewittIsSobelPipeline ==
    (Called /\ llamada.tipo_filtro = "Prewitt") =>
        filtrada = SobelPipeline(imagen_entrada, Direction,
                                 kernel_x, kernel_y)

\* The grey image is one vertical edge: every row is the same, one value
\* up to some column and another value from the next column on.
VerticalEdge(gris) ==
    LET rows == gris.shape[1]
        cols == gris.shape[2]
        at(r, c) == gris.data[(r - 1) * cols + c]
    IN  \E edge \in 2..cols :
            /\ at(1, 1) # at(1, cols)
            /\ \A r \in 1..rows, c \in 1..cols :
                  at(r, c) = IF c < edge THEN at(1, 1) ELSE at(1, cols)

\* What the called filter returns on the image for the direction d.
ForDirection(d) ==
    LET outcome == CHOOSE o \in aplicar_filtro(InitFiltros, imagen_entrada,
                                               llamada.tipo_filtro,
                                               [direccion |-> d]) : TRUE
    IN  outcome.value

\* The horizontal derivative the called filter computes on the image.
RawX ==
    filter2D(imagen_gris(imagen_entrada),
             IF llamada.tipo_filtro = "Sobel" THEN sobel_kernel_x
             ELSE kernel_x).data

\* C21 as stated: on an image with a single vertical edge, Sobel and
\* Prewitt return a response of at most 1 everywhere for direction x, and
\* for direction both what they return for direction y.
C21_VerticalEdgeSilentInX ==
    (/\ Called
     /\ llamada.tipo_filtro \in {"Sobel", "Prewitt"}
     /\ VerticalEdge(imagen_gris(imagen_entrada))) =>
        /\ Direction = "x" =>
              \A i \in DOMAIN GreyOf(filtrada) : GreyOf(filtrada)[i] <= 1
        /\ Direction = "ambas" => filtrada = ForDirection("y")

\* C21 amended: on an image with a single vertical edge, Sobel and Prewitt
\* return 0 everywhere for direction y, and for direction both the size of
\* the horizontal response cut at 255; that is what Prewitt returns for
\* direction x, and what Sobel returns for direction x where the response
\* is not negative (Sobel's x response is 0 where it is negative).
C21_VerticalEdgeSilentInY ==
    (/\ Called
     /\ llamada.tipo_filtro \in {"Sobel", "Prewitt"}
     /\ VerticalEdge(imagen_gris(imagen_entrada))) =>
        LET out == GreyOf(filtrada)
            x == GreyOf(ForDirection("x"))
        IN  /\ Direction = "y" => \A i \in DOMAIN out : out[i] = 0
            /\ Direction = "ambas" =>
                  /\ \A i \in DOMAIN out :
                        out[i] = IF Abs(RawX[i]) > 255 THEN 255
                                 ELSE Abs(RawX[i])
                  /\ llamada.tipo_filtro = "Prewitt" => out = x
                  /\ llamada.tipo_filtro = "Sobel" =>
                        \A i \in DOMAIN out :
                            x[i] = IF RawX[i] < 0 THEN 0 ELSE out[i]

\* Sobel for both directions has run on a 3 x 3 image whose left column is
\* bright: the middle column responds, with a negative derivative.
C21_Witness ==
    /\ Called
    /\ llamada = [tipo_filtro |-> "Sobel",
                  parametros |-> [direccion |-> "ambas"]]
    /\ imagen_entrada.shape = <<3, 3>>
    /\ VerticalEdge(imagen_entrada)
    /\ RawX[5] < 0
    /\ filtrada.data[5] = 255

----------------------------------------------------------------------------
(* Claims about the viewers' category masks *)

\* The last thing a viewer produced came from the method `site`.
Shown(site) == "site" \in DOMAIN vista /\ vista.site = site

\* The names a list of masks holds.
Names(masks_selected) == {masks_selected[k] : k \in DOMAIN masks_selected}

\* Pixel i lies in the mask m of the table `ranges`.
InMask(ranges, m, i) ==
    masks_of(ranges, imread(image_file))[m].data[i] = 255

\* C22: the combined mask of a crop holds a pixel exactly when one of the
\* selected masks holds it, in the viewer and in the analysis tab; the
\* viewer's mask is the same for every list that holds the same names, in
\* any order and with repeats, and is empty for the empty list.
C22_CombinedMaskIsUnion ==
    /\ Shown("apply_mask_crop") =>
          /\ \A i \in DOMAIN vista.combined_mask.data :
                vista.combined_mask.data[i] =
                    IF \E m \in Names(vista.masks_selected) :
                           InMask(viewer_ranges, m, i)
                    THEN 255 ELSE 0
          /\ \A other \in Selections :
                Names(other) = Names(vista.masks_selected) =>
                    viewer_combined_mask(imread(image_file), other)
                        = vista.combined_mask
    /\ (Shown("apply_masks") /\ image_file.decodes) =>
          \A i \in DOMAIN vista.combined_mask.data :
              vista.combined_mask.data[i] =
                  IF \E m \in vista.checked : InMask(tab_ranges, m, i)
                  THEN 255 ELSE 0

\* The viewer has combined two different masks, in an order other than the
\* check boxes', over an image with a pixel in both of them and a pixel in
\* neither.
C22_Witness ==
    /\ Shown("apply_mask_crop")
    /\ vista.masks_selected = <<"disease2", "disease1">>
    /\ \E i, j \in DOMAIN vista.combined_mask.data :
          /\ InMask(viewer_ranges, "disease1", i)
          /\ InMask(viewer_ranges, "disease2", i)
          /\ InMask(viewer_ranges, "healthy", j)
          /\ vista.combined_mask.data[i] = 255
          /\ vista.combined_mask.data[j] = 0

\* The indices of the image's pure black pixels.
BlackPixels ==
    IF image_file.decodes
    THEN {i \in DOMAIN image_file.pixels.data :
              image_file.pixels.data[i] = Black}
    ELSE {}

\* The analyzer of the analysis tab has returned a result for the image.
Analyzed == returned["tab"] \notin {NotCalled, None}

\* The colour analysis has computed its masks of the image.
Coloured == Shown("perform_color_analysis") /\ vista.result # None

\* C24 as stated: a pure black pixel is in no mask of the analyzer, of the
\* mask crops and of the colour analysis.
C24_BlackUnclassified ==
    \A i \in BlackPixels :
        /\ Analyzed =>
              \A state \in StateNames : returned["tab"].masks[state].data[i] = 0
        /\ (Shown("apply_mask_crop") \/ Shown("apply_masks")) =>
              vista.combined_mask.data[i] = 0
        /\ Coloured =>
              \A m \in MaskNameSet : vista.result.masks[m].data[i] = 0

\* C24 amended: a pure black pixel is in no mask of the analyzer; in the
\* mask crops and in the colour analysis it is in the severe mask and in
\* no other, so that a crop keeps it exactly when severe is selected.
C24_BlackSevereInViewers ==
    \A i \in BlackPixels :
        /\ Analyzed =>
              \A state \in StateNames : returned["tab"].masks[state].data[i] = 0
        /\ Shown("apply_mask_crop") =>
              vista.combined_mask.data[i] =
                  IF "disease2" \in Names(vista.masks_selected)
                  THEN 255 ELSE 0
        /\ Shown("apply_masks") =>
              vista.combined_mask.data[i] =
                  IF "disease2" \in vista.checked THEN 255 ELSE 0
        /\ Coloured =>
              \A m \in MaskNameSet :
                  vista.result.masks[m].data[i] =
                      IF m = "disease2" THEN 255 ELSE 0

\* The analyzer found nothing in an all-black image that the viewer's crop
\* by the severe mask keeps whole.
C24_Witness ==
    /\ BlackPixels # {}
    /\ BlackPixels = DOMAIN image_file.pixels.data
    /\ Analyzed
    /\ returned["tab"].total_pixels = 0
    /\ Shown("apply_mask_crop")
    /\ vista.masks_selected = <<"disease2">>
    /\ vista.result # None
    /\ \A i \in BlackPixels : vista.result.data[i] = "image"

\* The most severe of the categories (numbered 1, 2, 3) whose mask holds
\* pixel i, and 0 when no mask holds it.
MostSevere(masks, names, i) ==
    LET holding == {k \in DOMAIN names : masks[names[k]].data[i] > 0}
    IN  IF holding = {} THEN 0
        ELSE CHOOSE k \in holding : \A other \in holding : other <= k

----------------------------------------------------------------------------
(* Claims about shared state *)

\* C23: no step of any interleaving of aplicar_filtro,
\* get_parametros_filtro, calcular_histograma_rgb, analyze_leaf_damage and
\* of a caller's writes into the dict get_parametros_filtro handed out
\* changes the filter bank's two tables, an analyzer's color_ranges, the
\* image handed to the filter bank or the analyzer's file; the tables stay
\* those of __init__, so a later call without parameters uses them.
C23_NoSharedMutableState ==
    [][/\ filtros' = filtros
       /\ filtros = InitFiltros
       /\ color_ranges' = color_ranges
       /\ imagen_entrada' = imagen_entrada
       /\ image_file' = image_file]_vars

\* A caller has changed the Mediana defaults it was handed, and a call of
\* Mediana without parameters, a histogram and an analysis have returned.
C23_Witness ==
    /\ devuelto # NotCalled
    /\ devuelto.items = [kernel_size |-> 7]
    /\ llamada = [tipo_filtro |-> "Mediana", parametros |-> None]
    /\ filtrada \in dispatch("Mediana", imagen_entrada, [kernel_size |-> 5])
    /\ histograma # NotCalled
    /\ returned["tab"] # NotCalled

----------------------------------------------------------------------------
(* Claims about disjoint ranges and the samples of the scan *)

\* 0 <= x <= 100 for a rational x.
IsPercentage(x) == x.num >= 0 /\ x.num <= 100 * x.den

\* C26: the analyzer's three masks never share a pixel, total_pixels is the
\* number of pixels that lie in some mask and so at most rows * cols, and
\* every percentage returned, afectacion_total included, is within [0, 100].
C26_RangesDisjoint ==
    \A a \in Analyzers :
        HasResult(a) =>
            LET r == returned[a]
                pixels == DOMAIN r.original_image.data
                holding(i) == {state \in StateNames : r.masks[state].data[i] # 0}
            IN  /\ \A i \in pixels : Cardinality(holding(i)) <= 1
                /\ r.total_pixels =
                       Cardinality({i \in pixels : holding(i) # {}})
                /\ r.total_pixels <=
                       r.original_image.shape[1] * r.original_image.shape[2]
                /\ \A key \in StateNames \cup {"afectacion_total"} :
                       IsPercentage(r[key])

\* An analysis of a four-pixel image with every pixel in a mask, and one of
\* a pixel on the bound between afectado and severo (hue 19, hue 20).
C26_Witness ==
    \E a \in Analyzers :
        /\ HasResult(a)
        /\ \/ /\ Len(returned[a].original_image.data) = 4
              /\ returned[a].total_pixels = 4
              /\ returned[a].afectacion_total = Float(100)
           \/ /\ returned[a].original_image.data[1][1] \in {19, 20}
              /\ returned[a].total_pixels = 1

\* The image number a crop's name carries: the decimal digits at positions
\* 3, 4 and 5 of its stem, counted from 0.
NumberIn(stem) ==
    100 * digit_value(stem[4]) + 10 * digit_value(stem[5])
        + digit_value(stem[6])

\* The crops that count for image n in category c: files in the folder c
\* whose name passes the checks and whose content decodes.
Contributors(n, c) ==
    {e \in crops.files :
        /\ e.path \in AcceptedPaths
        /\ e.path.parent = c
        /\ NumberIn(e.path.stem) = n
        /\ CropContent(e.file).decodes}

\* The analysis of the content of a crop.
SampleOf(e) == analyze_leaf_damage(color_ranges["worker"], CropContent(e.file))

\* C27: after the scan the group (n, c) holds one sample for each accepted
\* crop of image n in folder c that decodes, namely that crop's analysis
\* (a crop without classified pixels included), and nothing else; a key
\* exists only where there is such a crop, so no group list is empty, and
\* every entry of the summary counts at least one sample.
C27_OneSamplePerDecodedCrop ==
    pc \in {"scanned", "summarised"} =>
        /\ \A n \in DOMAIN results \cup {1, 2} :
              \A c \in {"hoja", "tallo"}
                           \cup (IF n \in DOMAIN results
                                 THEN DOMAIN results[n] ELSE {}) :
                  LET has == n \in DOMAIN results /\ c \in DOMAIN results[n]
                  IN  IF Contributors(n, c) = {} THEN ~has
                      ELSE /\ has
                           /\ Len(results[n][c])
                                 = Cardinality(Contributors(n, c))
                           /\ \A e \in Contributors(n, c) :
                                 Cardinality({i \in DOMAIN results[n][c] :
                                                results[n][c][i] = SampleOf(e)})
                                   = Cardinality({o \in Contributors(n, c) :
                                                    SampleOf(o) = SampleOf(e)})
        /\ \A n \in DOMAIN results : DOMAIN results[n] # {}
        /\ pc = "summarised" =>
              \A n \in DOMAIN summary :
                  /\ DOMAIN summary[n] = DOMAIN results[n]
                  /\ \A c \in DOMAIN summary[n] : summary[n][c].count >= 1

\* A rolled-up folder with a crop that does not decode, a crop without any
\* classified pixel and a file whose name fails the checks: the group holds
\* the one sample of the second.
C27_Witness ==
    /\ pc = "summarised"
    /\ \E bad, empty, skipped \in crops.files :
          /\ bad.path \in AcceptedPaths /\ bad.file = "corrupt"
          /\ empty.path \in AcceptedPaths /\ empty.file = "leaf0"
          /\ bad.path.parent = "hoja" /\ empty.path.parent = "hoja"
          /\ NumberIn(bad.path.stem) = 1 /\ NumberIn(empty.path.stem) = 1
          /\ skipped.path \in SkippedPaths
    /\ summary[1]["hoja"].count = 1
    /\ results[1]["hoja"][1].total_pixels = 0

----------------------------------------------------------------------------
(* Claims about the worker threads *)

\* C28: once stop() has been called while the yolo process was running,
\* the process runs no more, the worker starts no attempt with the Python
\* method, and when run() has returned it has emitted training_completed
\* exactly once, with success = False.
C28_StopIsFinal ==
    entrenamiento.stopped_in_cli =>
        /\ entrenamiento.process # "running"
        /\ entrenamiento.attempts = <<"cli">>
        /\ Len(entrenamiento.emitted) <= 1
        /\ entrenamiento.pc = "finished" => entrenamiento.emitted = <<FALSE>>

\* The workers whose run() has not returned or whose signal the viewer has
\* not handled yet.
InFlight ==
    {w \in DOMAIN visor.workers :
        \/ visor.workers[w].running
        \/ \E k \in DOMAIN visor.queued : visor.queued[k].worker = w}

\* C29: at most one FilterWorker is in flight; while one is, the apply
\* button is disabled; no worker but the one self.filter_worker refers to
\* is running; and no request older than the one whose image is displayed
\* is still in flight, so that the displayed image comes from the latest
\* request that produced one.
C29_OneWorkerInFlight ==
    /\ Cardinality(InFlight) <= 1
    /\ InFlight # {} => ~visor.apply_btn
    /\ \A w \in DOMAIN visor.workers :
          visor.workers[w].running => w = visor.filter_worker
    /\ \A w \in InFlight : w > visor.shown_from

\* C30: a run of the AnalysisWorker emits analysis_completed once: never
\* twice, and once when run() has returned.  The signal carries success =
\* True exactly when the scan raised nothing and returned at least one
\* group, then with the scan's results and their summary attached, and
\* otherwise an empty dict.  Once the tab has handled it the analyse button
\* is enabled, and the export and statistics buttons are enabled exactly
\* when the run succeeded.
C30_CompletedOnce ==
    /\ Len(analisis.emitted) <= 1
    /\ pc \in {"start", "scanned", "summarised"} => analisis.emitted = <<>>
    /\ pc = "finished" =>
          /\ Len(analisis.emitted) = 1
          /\ LET signal == analisis.emitted[1]
                 ok == ~analisis.raised /\ DOMAIN results # {}
             IN  /\ signal.success = ok
                 /\ signal.data =
                       IF ok THEN [results |-> results,
                                   summary |->
                                       calculate_summary_statistics(results)]
                       ELSE EmptyDict
                 /\ analisis.handled =>
                       /\ analisis.analyze_btn
                       /\ analisis.export_btn = ok
                       /\ analisis.stats_btn = ok
                 /\ (~analisis.handled) => ~analisis.analyze_btn

\* A run whose scan raised has been handled after one that succeeded: the
\* results of the first are still shown and the two buttons are disabled
\* again.
C30_Witness ==
    /\ pc = "finished"
    /\ analisis.handled
    /\ analisis.raised
    /\ analisis.emitted = <<[success |-> FALSE, data |-> EmptyDict]>>
    /\ DOMAIN analisis.current_summary # {}
    /\ analisis.analyze_btn
    /\ ~analisis.export_btn

============================================================================
